---- MODULE Spec2Model ----
(***************************************************************************)
(* A model of the slot-based reporting core of github-reporter: the        *)
(* object store, the buffered store used by reruns, the index maintainer,  *)
(* the per-slot processors, the scheduled batch runner and the CLI         *)
(* commands run / rerun / delete.                                          *)
(*                                                                         *)
(* Time is counted in slots: slot s has scheduledAt = s and the window     *)
(* (s-1, s].  A slot key is the slot's number: formatSlotKey is a fixed    *)
(* width UTC timestamp, so the lexical order of keys is the numeric order  *)
(* of the numbers used here.  Storage keys are paths, kept as sequences of *)
(* their segments.  File bodies are records holding the fields of the JSON *)
(* documents that the code reads back or that tell two bodies apart.       *)
(***************************************************************************)
EXTENDS Integers, Sequences, FiniteSets, TLC

VARIABLES
    store,   \* the real object store: a function from the keys present to their bodies
    clock,   \* wall clock, one tick per command or per-slot run (new Date())
    cur,     \* the slot that is current "now"
    config,  \* the job's configuration as loaded: [mode, idempotentKey, onEmpty]
    batch,   \* the scheduled batch in flight (runJobWithSchedule's loop state)
    buf,     \* a buffered store created over the real store (writes, deletes)
    pre,     \* the real store as it was when the last command / buffer started
    last     \* what the last finished operation did and returned

vars == <<store, clock, cur, config, batch, buf, pre, last>>

(***************************************************************************)
(* Bounds of the model.                                                    *)
(***************************************************************************)
NumSlots == 2
MaxCmds == 2
MaxBackfill == 2
MaxOps == 3

Slots == 1..NumSlots
AllSlots == (1 - MaxBackfill)..NumSlots
Null == [type |-> "null"]
Corrupt == [type |-> "corrupt"]

(***************************************************************************)
(* Storage Key Builder (src/src/utils.ts).                                 *)
(***************************************************************************)
formatSlotKey(s) == "slot" \o ToString(s)

buildReportBaseKey(prefix, ownerType, owner, jobId, slotKey) ==
    <<prefix, ownerType, owner, jobId, formatSlotKey(slotKey)>>

buildIndexBaseKey(prefix, ownerType, owner, jobId) ==
    <<prefix, "_index", ownerType, owner, jobId>>

buildJobsRegistryKey(prefix, ownerType, owner) ==
    <<prefix, "_index", ownerType, owner, "jobs.json">>

\* The one job of this model and its key space.
ReportBase(s) == buildReportBaseKey("reports", "org", "acme", "daily", s)
IndexBase == buildIndexBaseKey("reports", "org", "acme", "daily")
JobsKey == buildJobsRegistryKey("reports", "org", "acme")
ManifestKey(s) == Append(ReportBase(s), "manifest.json")
SummaryKey(s) == Append(ReportBase(s), "summary.json")
OutputKey(s, ext) == Append(ReportBase(s), "output." \o ext)
MonthKey(m) == Append(IndexBase, ToString(m) \o ".json")
LatestKey == Append(IndexBase, "latest.json")

\* The calendar month of an instant: two slot units make a month, so that a
\* window may straddle a month boundary.
formatMonthKey(t) == t \div 2
WindowStart(s) == s - 1
Periods == {formatMonthKey(t) : t \in (0 - MaxBackfill)..NumSlots}

StartsWith(key, prefix) ==
    /\ Len(prefix) <= Len(key)
    /\ SubSeq(key, 1, Len(prefix)) = prefix

(***************************************************************************)
(* The object store (StorageClient).  A store handle carries the real      *)
(* store, the buffer when it is a buffered store, and the fault of the     *)
(* real store in this invocation: its failAt-th mutating call throws, and  *)
(* so does every later one unless the store recovers.                      *)
(***************************************************************************)
NoFault == [failAt |-> 0, recover |-> TRUE]

Fails(fault, n) ==
    /\ fault.failAt # 0
    /\ \/ n = fault.failAt
       \/ n > fault.failAt /\ ~fault.recover

BasePut(base, key, body) ==
    [k \in (DOMAIN base) \cup {key} |-> IF k = key THEN body ELSE base[k]]

BaseGet(base, key) == IF key \in DOMAIN base THEN base[key] ELSE Null

BaseExists(base, key) == key \in DOMAIN base

BaseList(base, prefix) == {k \in DOMAIN base : StartsWith(k, prefix)}

BaseDelete(base, key) == [k \in (DOMAIN base) \ {key} |-> base[k]]

RealStorage(base, fault) ==
    [base |-> base, buffered |-> FALSE, writes |-> <<>>, deletes |-> <<>>,
     nops |-> 0, fault |-> fault, err |-> FALSE]

(***************************************************************************)
(* Buffered store (src/src/storage-transaction.ts).  writes is the Map in  *)
(* insertion order, deletes the Set in insertion order.                    *)
(***************************************************************************)
\* A "buffered" store that is the real store.
createDirectStorage(base) ==
    [base |-> base, buffered |-> FALSE, writes |-> <<>>, deletes |-> <<>>,
     nops |-> 0, fault |-> [failAt |-> 0, recover |-> TRUE], err |-> FALSE]

createBufferedStorage(base) ==
    [base |-> base, buffered |-> TRUE, writes |-> <<>>, deletes |-> <<>>,
     nops |-> 0, fault |-> NoFault, err |-> FALSE]

HasKey(entries, key) == \E i \in 1..Len(entries) : entries[i].key = key

WithoutKey(entries, key) == SelectSeq(entries, LAMBDA e : e.key # key)

\* Map.set: an existing key keeps its place, a new key goes last.
MapSet(entries, key, body) ==
    IF HasKey(entries, key)
    THEN [i \in 1..Len(entries) |->
            IF entries[i].key = key THEN [key |-> key, body |-> body] ELSE entries[i]]
    ELSE Append(entries, [key |-> key, body |-> body])

MapGet(entries, key) ==
    LET i == CHOOSE j \in 1..Len(entries) : entries[j].key = key IN entries[i].body

\* Set.add / Set.delete on the insertion-ordered key set.
SetAdd(keys, key) ==
    IF \E i \in 1..Len(keys) : keys[i] = key THEN keys ELSE Append(keys, key)

SetDelete(keys, key) == SelectSeq(keys, LAMBDA k : k # key)

SetHas(keys, key) == \E i \in 1..Len(keys) : keys[i] = key

\* A put that writes through to the base as well as into the buffer.
BufferedPutThrough(st, key, body) ==
    [st EXCEPT !.base = BasePut(@, key, body), !.writes = MapSet(@, key, body),
               !.deletes = SetDelete(@, key)]

BufferedPut(st, key, body) ==
    [st EXCEPT !.writes = MapSet(@, key, body), !.deletes = SetDelete(@, key)]

BufferedGet(st, key) ==
    IF HasKey(st.writes, key) THEN MapGet(st.writes, key)
    ELSE IF SetHas(st.deletes, key) THEN Null
    ELSE BaseGet(st.base, key)

BufferedExists(st, key) ==
    IF HasKey(st.writes, key) THEN TRUE
    ELSE IF SetHas(st.deletes, key) THEN FALSE
    ELSE BaseExists(st.base, key)

BufferedList(st, prefix) ==
    ((BaseList(st.base, prefix)
        \cup {st.writes[i].key : i \in {j \in 1..Len(st.writes) : StartsWith(st.writes[j].key, prefix)}})
        \ {st.deletes[i] : i \in {j \in 1..Len(st.deletes) : StartsWith(st.deletes[j], prefix)}})

BufferedDelete(st, key) ==
    [st EXCEPT !.writes = WithoutKey(@, key), !.deletes = SetAdd(@, key)]

pendingKeys(st) == {st.writes[i].key : i \in 1..Len(st.writes)}

discard(st) == [st EXCEPT !.writes = <<>>, !.deletes = <<>>]

(***************************************************************************)
(* StorageClient calls through a handle.  nops counts the put / delete     *)
(* calls made through the handle.  A mutating call on the real store may   *)
(* throw (err); reads never throw (the clients turn every read error into  *)
(* null / false).  A handle that has thrown is left as it is by the calls  *)
(* that follow in the same block: control has left for the handler.        *)
(***************************************************************************)
RealMutate(st, newBase) ==
    IF Fails(st.fault, st.nops + 1)
    THEN [st EXCEPT !.nops = @ + 1, !.err = TRUE]
    ELSE [st EXCEPT !.nops = @ + 1, !.base = newBase]

Put(st, key, body) ==
    IF st.err THEN st
    ELSE IF st.buffered THEN [BufferedPut(st, key, body) EXCEPT !.nops = @ + 1]
    ELSE RealMutate(st, BasePut(st.base, key, body))

Delete(st, key) ==
    IF st.err THEN st
    ELSE IF st.buffered THEN [BufferedDelete(st, key) EXCEPT !.nops = @ + 1]
    ELSE RealMutate(st, BaseDelete(st.base, key))

Get(st, key) == IF st.buffered THEN BufferedGet(st, key) ELSE BaseGet(st.base, key)

Exists(st, key) ==
    IF st.buffered THEN BufferedExists(st, key) ELSE BaseExists(st.base, key)

List(st, prefix) ==
    IF st.buffered THEN BufferedList(st, prefix) ELSE BaseList(st.base, prefix)

\* commit(): buffered deletes, then buffered writes, one base call each, in
\* insertion order; the first call that throws ends it with what was applied
\* so far left in the real store.  real is the handle of the real store.
RECURSIVE CommitDeletes(_, _)
CommitDeletes(real, keys) ==
    IF real.err \/ keys = <<>> THEN real
    ELSE CommitDeletes(Delete(real, Head(keys)), Tail(keys))

RECURSIVE CommitWrites(_, _)
CommitWrites(real, entries) ==
    IF real.err \/ entries = <<>> THEN real
    ELSE CommitWrites(Put(real, Head(entries).key, Head(entries).body), Tail(entries))

commit(st, real) == CommitWrites(CommitDeletes(real, st.deletes), st.writes)

(***************************************************************************)
(* Index Maintainer (src/src/manifest.ts, src/src/storage-index.ts).       *)
(* An index item: [slotKey, start, status, empty, outputSize, manifestKey],*)
(* start being window.start.                                               *)
(***************************************************************************)
HasManifestKey(items, manifestKey) ==
    \E i \in 1..Len(items) : items[i].manifestKey = manifestKey

\* Array.prototype.sort with (a, b) => a.window.start.localeCompare(b.window.start):
\* a stable sort, here by insertion.
\* An insertion that does not look at window.start.
InsertAtEnd(sorted, item) == Append(sorted, item)

RECURSIVE InsertByStart(_, _)
InsertByStart(sorted, item) ==
    IF sorted = <<>> THEN <<item>>
    ELSE IF sorted[Len(sorted)].start <= item.start THEN Append(sorted, item)
    ELSE Append(InsertByStart(SubSeq(sorted, 1, Len(sorted) - 1), item), sorted[Len(sorted)])

RECURSIVE SortByStart(_)
SortByStart(items) ==
    IF items = <<>> THEN <<>>
    ELSE InsertByStart(SortByStart(SubSeq(items, 1, Len(items) - 1)), items[Len(items)])

\* JSON.parse of a body that is not JSON throws.
ParseFails(body) == body.type = "corrupt"

\* A merge that does not look for the manifestKey.
MergeItemAlways(items, item) == SortByStart(Append(items, item))

MergeItem(items, item) ==
    IF HasManifestKey(items, item.manifestKey) THEN items
    ELSE SortByStart(Append(items, item))

ExistingItems(existing) == IF existing = Null THEN <<>> ELSE existing.items

updateIndex(st, key, period, item) ==
    IF st.err THEN st
    ELSE IF ParseFails(Get(st, key)) THEN [st EXCEPT !.err = TRUE]
    ELSE Put(st, key, [type |-> "index", period |-> period,
                       items |-> MergeItem(ExistingItems(Get(st, key)), item)])

writeLatest(st, key, item) == Put(st, key, [type |-> "latest", latest |-> item])

\* loadLatest / loadLatestItem: the item of latest.json, Null when there is
\* none; err when the file does not parse.
loadLatest(st, indexBase) ==
    LET body == Get(st, Append(indexBase, "latest.json")) IN
    IF body = Null THEN [err |-> FALSE, item |-> Null]
    ELSE IF ParseFails(body) THEN [err |-> TRUE, item |-> Null]
    ELSE [err |-> FALSE, item |-> body.latest]

loadIndexFile(st, key) ==
    LET body == Get(st, key) IN
    IF body = Null THEN [err |-> FALSE, file |-> Null]
    ELSE IF ParseFails(body) THEN [err |-> TRUE, file |-> Null]
    ELSE [err |-> FALSE, file |-> body]

writeIndexFile(st, key, file) == Put(st, key, file)

\* The periods whose monthly file is listed under the index base, ascending.
RECURSIVE SortedSeq(_)
SortedSeq(S) ==
    IF S = {} THEN <<>>
    ELSE LET m == CHOOSE x \in S : \A y \in S : x <= y IN <<m>> \o SortedSeq(S \ {m})

listIndexPeriods(st, indexBase) ==
    SortedSeq({m \in Periods : Append(indexBase, ToString(m) \o ".json") \in List(st, indexBase)})

FirstOfSlot(items, slotKey) ==
    LET hits == {i \in 1..Len(items) : items[i].slotKey = slotKey}
    IN  IF hits = {} THEN Null ELSE items[CHOOSE i \in hits : \A j \in hits : i <= j]

WithoutSlot(items, slotKey) == SelectSeq(items, LAMBDA it : it.slotKey # slotKey)

\* A removal that rewrites the file also when no item is left.
RemoveFromKeepFile(st, indexKey, file, slotKey) ==
    IF FirstOfSlot(file.items, slotKey) = Null THEN st
    ELSE writeIndexFile(st, indexKey, [file EXCEPT !.items = WithoutSlot(@, slotKey)])

RemoveFrom(st, indexKey, file, slotKey) ==
    IF FirstOfSlot(file.items, slotKey) = Null THEN st
    ELSE IF WithoutSlot(file.items, slotKey) = <<>> THEN Delete(st, indexKey)
    ELSE writeIndexFile(st, indexKey, [file EXCEPT !.items = WithoutSlot(@, slotKey)])

\* The handle after removeIndexItemBySlot.
removeIndexItemBySlot(st, indexKey, slotKey) ==
    IF st.err THEN st
    ELSE IF loadIndexFile(st, indexKey).err THEN [st EXCEPT !.err = TRUE]
    ELSE IF loadIndexFile(st, indexKey).file = Null THEN st
    ELSE RemoveFrom(st, indexKey, loadIndexFile(st, indexKey).file, slotKey)

\* The removed field of what removeIndexItemBySlot returns: the item found,
\* Null when there is no file or no such item.
RemovedBySlot(st, indexKey, slotKey) ==
    IF loadIndexFile(st, indexKey).file = Null THEN Null
    ELSE FirstOfSlot(loadIndexFile(st, indexKey).file.items, slotKey)

\* All items of the monthly files, in period order; err when a file does
\* not parse.
RECURSIVE CollectItems(_, _, _)
CollectItems(st, indexBase, periods) ==
    IF periods = <<>> THEN [err |-> FALSE, items |-> <<>>]
    ELSE
        LET loaded == loadIndexFile(st, Append(indexBase, ToString(Head(periods)) \o ".json"))
            rest == CollectItems(st, indexBase, Tail(periods))
        IN  IF loaded.err \/ rest.err THEN [err |-> TRUE, items |-> <<>>]
            ELSE [err |-> FALSE,
                  items |-> (IF loaded.file = Null THEN <<>> ELSE loaded.file.items) \o rest.items]

\* items.reduce((current, item) => item.slotKey > current.slotKey ? item : current, items[0])
\* A reduce that keeps its initial value.
MaxIsFirst(current, items) == current

RECURSIVE MaxBySlotKey(_, _)
MaxBySlotKey(current, items) ==
    IF items = <<>> THEN current
    ELSE MaxBySlotKey(IF Head(items).slotKey > current.slotKey THEN Head(items) ELSE current,
                      Tail(items))

LatestFrom(st, key, got) ==
    IF got.err THEN [st EXCEPT !.err = TRUE]
    ELSE IF got.items = <<>> THEN Delete(st, key)
    ELSE writeLatest(st, key, MaxBySlotKey(got.items[1], got.items))

recomputeLatest(st, indexBase) ==
    IF st.err THEN st
    ELSE LatestFrom(st, Append(indexBase, "latest.json"),
                    CollectItems(st, indexBase, listIndexPeriods(st, indexBase)))

(***************************************************************************)
(* Manifest & Summary Builder (src/src/manifest.ts).                       *)
(***************************************************************************)
\* Buffer.byteLength of an output body.
ByteLength(body) == IF body.text = "placeholder" THEN 1 ELSE 2

buildManifest(slot, output, empty, now) ==
    [type |-> "manifest", status |-> "success", error |-> "", slotKey |-> slot,
     empty |-> empty, generatedAt |-> now, output |-> output]

buildFailedManifest(slot, error, now) ==
    [type |-> "manifest", status |-> "failed", error |-> error, slotKey |-> slot,
     empty |-> TRUE, generatedAt |-> now, output |-> Null]

OutputSizeOf(manifest) == IF manifest.output = Null THEN 0 ELSE manifest.output.size

writeManifest(st, key, manifest) == Put(st, key, manifest)

writeSummary(st, key, manifest, manifestKey) ==
    Put(st, key,
        [type |-> "summary", slotKey |-> manifest.slotKey, status |-> manifest.status,
         empty |-> manifest.empty, outputSize |-> OutputSizeOf(manifest),
         manifestKey |-> manifestKey])

(***************************************************************************)
(* Run Orchestrator: the per-slot processors (src/src/processors).         *)
(*                                                                         *)
(* job     : [mode, idempotentKey, onEmpty, outputFormat]                  *)
(* options : [notify, recordFailure]; a webhook is configured              *)
(* env     : what the collaborators do in this run:                        *)
(*           fetch "throw" | "empty" | "data"  (ActivitySource, after its  *)
(*                 retries; for an aggregate job the source reports read)  *)
(*           gen   "ok" | "throw"              (ReportGenerator)           *)
(*           hook  "ok" | "throw"              (Notifier)                  *)
(* The result is the WindowRunResult (status, reason, error, manifestKey)  *)
(* with the store handle after the run, the collaborators called and the   *)
(* manifest built; status "threw" stands for an exception that leaves the  *)
(* processor.                                                              *)
(***************************************************************************)
Modes == {"pipeline", "aggregate", "stats"}
OnEmpty == {"placeholder", "manifest-only", "skip"}
Formats == {"markdown", "json"}

Extension(outputFormat) == IF outputFormat = "json" THEN "json" ELSE "md"

Caught(st) == [st EXCEPT !.err = FALSE]

WindowResult(status, reason, error, st, calls, manifest) ==
    [status |-> status, reason |-> reason, error |-> error, st |-> st,
     calls |-> calls, manifest |-> manifest]

IndexItemOf(slot, manifest) ==
    [slotKey |-> slot, start |-> WindowStart(slot), status |-> manifest.status,
     empty |-> manifest.empty, outputSize |-> OutputSizeOf(manifest),
     manifestKey |-> ManifestKey(slot)]

\* A record that writes the index and the pointer before the manifest.
WriteRunRecordIndexFirst(st, slot, manifest) ==
    writeSummary(
        writeManifest(
            writeLatest(
                updateIndex(st, MonthKey(formatMonthKey(WindowStart(slot))),
                            formatMonthKey(WindowStart(slot)), IndexItemOf(slot, manifest)),
                LatestKey, IndexItemOf(slot, manifest)),
            ManifestKey(slot), manifest),
        SummaryKey(slot), manifest, ManifestKey(slot))

\* writeManifest, writeSummary, updateIndex, writeLatest in that order; the
\* first one that throws ends the sequence.
WriteRunRecord(st, slot, manifest) ==
    writeLatest(
        updateIndex(
            writeSummary(
                writeManifest(st, ManifestKey(slot), manifest),
                SummaryKey(slot), manifest, ManifestKey(slot)),
            MonthKey(formatMonthKey(WindowStart(slot))), formatMonthKey(WindowStart(slot)),
            IndexItemOf(slot, manifest)),
        LatestKey, IndexItemOf(slot, manifest))

\* The end of the catch block: the result, or the exception of a recording
\* write, which nothing catches.
AfterFailureRecord(done, error, calls, failedManifest) ==
    WindowResult(IF done.err THEN "threw" ELSE "failed", "", error, done, calls, failedManifest)

\* The catch block of a processor.
RunCatch(st, slot, options, error, calls, now) ==
    IF ~options.recordFailure
    THEN WindowResult("failed", "", error, st, calls, Null)
    ELSE AfterFailureRecord(WriteRunRecord(st, slot, buildFailedManifest(slot, error, now)),
                            error, calls, buildFailedManifest(slot, error, now))

\* The text a job stores as its output.
OutputBody(mode, outputFormat, isEmpty, now) ==
    IF mode = "stats" THEN [type |-> "output", text |-> "stats", format |-> "json", at |-> now]
    ELSE IF isEmpty THEN [type |-> "output", text |-> "placeholder", format |-> outputFormat, at |-> now]
    ELSE [type |-> "output", text |-> "report", format |-> outputFormat, at |-> now]

\* A check that never finds the manifest.
IdempotentMiss(st, slot, job) == FALSE

\* if (job.idempotentKey && await storage.exists(manifestKey))
IdempotentHit(st, slot, job) == job.idempotentKey /\ Exists(st, ManifestKey(slot))

\* After writeManifest .. writeLatest of the try block.
AfterRecord(s2, slot, options, manifest, calls, now) ==
    IF s2.err
    THEN RunCatch(Caught(s2), slot, options, "store", calls, now)
    ELSE WindowResult("success", "", "", s2, calls, manifest)

\* After the put of the output: the webhook, then the run's record.
AfterOutput(s1, slot, options, manifest, hookThrows, callsGen, callsAll, now) ==
    IF s1.err
    THEN RunCatch(Caught(s1), slot, options, "store", callsGen, now)
    ELSE IF hookThrows
    THEN RunCatch(s1, slot, options, "webhook", callsAll, now)
    ELSE AfterRecord(WriteRunRecord(s1, slot, manifest), slot, options, manifest, callsAll, now)

\* if (!metricsOnly && !(isEmpty && job.onEmpty === "manifest-only")); only
\* the pipeline processor reads metricsOnly.
WantsOutput(mode, job, isEmpty) ==
    /\ ~(mode = "pipeline" /\ job.metricsOnly)
    /\ ~(isEmpty /\ job.onEmpty = "manifest-only")

runWindow(mode, st, slot, job, options, env, now) ==
    LET source == IF mode = "aggregate" THEN "SourceIndex" ELSE "ActivitySource"
        isEmpty == env.fetch = "empty"
        wantsOutput == WantsOutput(mode, job, isEmpty)
        generates == mode # "stats" /\ wantsOutput /\ ~isEmpty
        notifies == mode # "stats" /\ wantsOutput /\ options.notify
        outputFormat == IF mode = "stats" THEN "json" ELSE job.outputFormat
        outputKey == OutputKey(slot, Extension(outputFormat))
        body == OutputBody(mode, outputFormat, isEmpty, now)
        callsGen == {source} \cup (IF generates THEN {"ReportGenerator"} ELSE {})
        callsAll == callsGen \cup (IF notifies THEN {"Notifier"} ELSE {})
        output == IF wantsOutput
                  THEN [format |-> outputFormat, key |-> outputKey, size |-> ByteLength(body)]
                  ELSE Null
    IN
    IF IdempotentHit(st, slot, job)
    THEN WindowResult("skipped", "idempotent", "", st, {}, Null)
    ELSE IF env.fetch = "throw"
    THEN RunCatch(st, slot, options, "fetch", {source}, now)
    ELSE IF isEmpty /\ job.onEmpty = "skip"
    THEN WindowResult("skipped", "empty", "", st, {source}, Null)
    ELSE IF generates /\ env.gen = "throw"
    THEN RunCatch(st, slot, options, "generate", callsGen, now)
    ELSE AfterOutput(IF wantsOutput THEN Put(st, outputKey, body) ELSE st,
                     slot, options, buildManifest(slot, output, isEmpty, now),
                     notifies /\ env.hook = "throw", callsGen, callsAll, now)

runPipelineWindow(st, slot, job, options, env, now) ==
    runWindow("pipeline", st, slot, job, options, env, now)

runAggregateWindow(st, slot, job, options, env, now) ==
    runWindow("aggregate", st, slot, job, options, env, now)

\* runStatsWindow is not handed the notify option.
runStatsWindow(st, slot, job, options, env, now) ==
    runWindow("stats", st, slot, job, [options EXCEPT !.notify = FALSE], env, now)

runJobForSlot(st, slot, job, options, env, now) ==
    IF job.mode = "pipeline" THEN runPipelineWindow(st, slot, job, options, env, now)
    ELSE IF job.mode = "aggregate" THEN runAggregateWindow(st, slot, job, options, env, now)
    ELSE runStatsWindow(st, slot, job, options, env, now)

(***************************************************************************)
(* Slots and the schedule decision (src/src/github-rate-limit.ts holds the *)
(* slot calculator, src/src/scheduler.ts the decision).                    *)
(***************************************************************************)
resolveSlotKey(now) == now

\* max(1, backfillSlots) slots, the current one first, walking backwards.
RECURSIVE SlotsFrom(_, _)
SlotsFrom(slot, n) == IF n = 0 THEN <<>> ELSE <<slot>> \o SlotsFrom(slot - 1, n - 1)

listSlots(now, backfillSlots) ==
    SlotsFrom(resolveSlotKey(now), IF backfillSlots > 1 THEN backfillSlots ELSE 1)

\* A decision that is due again for the slot the pointer names.
getScheduleDecisionInclusive(st, now) ==
    LET slotKey == resolveSlotKey(now)
        loaded == loadLatest(st, IndexBase)
    IN  [err |-> loaded.err,
         due |-> loaded.item = Null \/ loaded.item.slotKey <= slotKey,
         slotKey |-> slotKey]

getScheduleDecision(st, now) ==
    LET slotKey == resolveSlotKey(now)
        loaded == loadLatest(st, IndexBase)
    IN  [err |-> loaded.err,
         due |-> loaded.item = Null \/ loaded.item.slotKey < slotKey,
         slotKey |-> slotKey]

\* writeJobsRegistry: read-modify-write of jobs.json, counting the runs.
writeJobsRegistry(st, key, now) ==
    LET existing == Get(st, key)
        totalRuns == (IF existing = Null THEN 0 ELSE existing.totalRuns) + 1
    IN  Put(st, key, [type |-> "jobs", totalRuns |-> totalRuns, lastRunAt |-> now])

(***************************************************************************)
(* What one per-slot run meets: the notify option it is given, what the    *)
(* collaborators do, and the fault of the real store.  A fault is taken    *)
(* with collaborators that work and hits one of the up to five writes of a *)
(* run.  A command is given --notify or not; the scheduled entry point     *)
(* always notifies.                                                        *)
(***************************************************************************)
Hooks(notify) == IF notify THEN {"ok", "throw"} ELSE {"ok"}

Envs(notify) ==
    {[fetch |-> "throw", gen |-> "ok", hook |-> "ok"],
     [fetch |-> "data", gen |-> "throw", hook |-> "ok"]}
    \cup {[fetch |-> f, gen |-> "ok", hook |-> h] : f \in {"empty", "data"}, h \in Hooks(notify)}

AllOk == [fetch |-> "data", gen |-> "ok", hook |-> "ok"]

Faults == [failAt : 1..5, recover : BOOLEAN]

Scenario(notify, env, fault) == [notify |-> notify, env |-> env, fault |-> fault]

CliScenarios ==
    {Scenario(FALSE, env, NoFault) : env \in Envs(FALSE)}
    \cup {Scenario(TRUE, [AllOk EXCEPT !.hook = h], NoFault) : h \in Hooks(TRUE)}
    \cup {Scenario(FALSE, AllOk, fault) : fault \in Faults}

BatchScenarios ==
    {Scenario(TRUE, env, NoFault) : env \in Envs(TRUE)}
    \cup {Scenario(TRUE, AllOk, fault) : fault \in Faults}

JobConfigs ==
    {c \in [mode : Modes, idempotentKey : BOOLEAN, onEmpty : OnEmpty, metricsOnly : BOOLEAN] :
        c.metricsOnly => c.mode = "pipeline"}

JobWith(outputFormat) ==
    [mode |-> config.mode, idempotentKey |-> config.idempotentKey, onEmpty |-> config.onEmpty,
     metricsOnly |-> config.metricsOnly, outputFormat |-> outputFormat]

IdleBatch == [active |-> FALSE, only |-> FALSE, format |-> "markdown", slots |-> <<>>, queue |-> <<>>, results |-> <<>>]

NoResult == [status |-> "none", reason |-> "", error |-> "", calls |-> {}, manifest |-> Null, puts |-> 0]

NoLast ==
    [cmd |-> "none", phase |-> "done", slot |-> 0, only |-> FALSE, env |-> AllOk, faulty |-> FALSE, notify |-> FALSE, threw |-> FALSE,
     ran |-> FALSE, clean |-> TRUE, result |-> NoResult, slots |-> <<>>, results |-> <<>>, committed |-> {}, existing |-> {}]

\* What is kept from one operation to the next: clean, that no store call
\* has thrown and no index file has been corrupted so far.
Carry(clean) == [NoLast EXCEPT !.clean = clean]

\* The WindowRunResult kept of a run: without the store handle, with the
\* number of put / delete calls the run issued through its storage.
Kept(r) ==
    [status |-> r.status, reason |-> r.reason, error |-> r.error, calls |-> r.calls,
     manifest |-> r.manifest, puts |-> r.st.nops]

Init ==
    /\ store = <<>>
    /\ clock = 0
    /\ cur = 1
    /\ config \in JobConfigs
    /\ batch = IdleBatch
    /\ buf = createBufferedStorage(<<>>)
    /\ pre = <<>>
    /\ last = NoLast

\* Time passes: the next slot becomes the current one.
Tick ==
    /\ ~batch.active
    /\ cur < NumSlots
    /\ cur' = cur + 1
    /\ UNCHANGED <<store, clock, config, batch, buf, pre, last>>

(***************************************************************************)
(* reporter run --job --at [--notify]                                      *)
(***************************************************************************)
RunEffect(r, at, sc) ==
    /\ store' = r.st.base
    /\ last' = [Carry(last.clean /\ sc.fault = NoFault) EXCEPT !.cmd = "run", !.slot = at, !.notify = sc.notify,
                              !.env = sc.env, !.faulty = sc.fault # NoFault,
                              !.threw = (r.status = "threw"), !.ran = TRUE,
                              !.result = Kept(r)]

CmdRun(at, outputFormat, sc) ==
    /\ ~batch.active
    /\ clock < MaxCmds
    /\ RunEffect(runJobForSlot(RealStorage(store, sc.fault), at, JobWith(outputFormat),
                               [notify |-> sc.notify, recordFailure |-> TRUE], sc.env, clock),
                 at, sc)
    /\ pre' = store
    /\ clock' = clock + 1
    /\ UNCHANGED <<cur, config, batch, buf>>

(***************************************************************************)
(* reporter rerun --job --at [--notify]                                    *)
(***************************************************************************)
\* for (const key of existingKeys) if (!committedKeys.has(key)) delete(key)
\* A cleanup that deletes nothing.
DeleteNoKeys(real, keys) == real

RECURSIVE DeleteKeys(_, _)
DeleteKeys(real, keys) ==
    IF real.err \/ keys = {} THEN real
    ELSE LET key == CHOOSE k \in keys : TRUE
         IN  DeleteKeys(Delete(real, key), keys \ {key})

\* The success branch: commit, then the existing keys that were not committed.
RerunCommitted(cleaned, result, existingKeys, at, sc) ==
    /\ store' = cleaned.base
    /\ last' = [Carry(last.clean /\ sc.fault = NoFault) EXCEPT !.cmd = "rerun", !.slot = at, !.notify = sc.notify,
                              !.env = sc.env, !.faulty = sc.fault # NoFault,
                              !.threw = cleaned.err, !.ran = TRUE, !.result = Kept(result),
                              !.committed = pendingKeys(result.st),
                              !.existing = existingKeys]

RerunEffect(result, existingKeys, at, sc) ==
    IF result.status = "success"
    THEN RerunCommitted(DeleteKeys(commit(result.st, RealStorage(store, sc.fault)),
                                   existingKeys \ pendingKeys(result.st)),
                        result, existingKeys, at, sc)
    ELSE /\ store' = discard(result.st).base
         /\ last' = [Carry(last.clean /\ sc.fault = NoFault) EXCEPT !.cmd = "rerun", !.slot = at, !.notify = sc.notify,
                              !.env = sc.env, !.faulty = sc.fault # NoFault,
                                   !.ran = TRUE, !.result = Kept(result),
                                   !.existing = existingKeys]

CmdRerun(at, outputFormat, sc) ==
    /\ ~batch.active
    /\ clock < MaxCmds
    /\ RerunEffect(runJobForSlot(createBufferedStorage(store), at, JobWith(outputFormat),
                                 [notify |-> sc.notify, recordFailure |-> FALSE], sc.env, clock),
                   BaseList(store, ReportBase(at)), at, sc)
    /\ pre' = store
    /\ clock' = clock + 1
    /\ UNCHANGED <<cur, config, batch, buf>>

(***************************************************************************)
(* reporter delete --job --at --yes                                        *)
(***************************************************************************)
resolvePeriodKey(slotKey, manifestText) ==
    IF manifestText # Null
    THEN formatMonthKey(WindowStart(manifestText.slotKey))
    ELSE formatMonthKey(slotKey)

\* loadLatest, and recomputeLatest when the latest pointer is the deleted slot.
AfterRemoval(st, latest, at) ==
    IF st.err THEN st
    ELSE IF latest.err THEN [st EXCEPT !.err = TRUE]
    ELSE IF latest.item # Null /\ latest.item.slotKey = at THEN recomputeLatest(st, IndexBase)
    ELSE st

Removal(d1, periodKey, at) ==
    AfterRemoval(removeIndexItemBySlot(d1, MonthKey(periodKey), at),
                 loadLatest(removeIndexItemBySlot(d1, MonthKey(periodKey), at), IndexBase),
                 at)

DeleteOutcome(real, at) ==
    Removal(DeleteKeys(real, List(real, ReportBase(at))),
            resolvePeriodKey(at, Get(real, ManifestKey(at))), at)

CmdDelete(at) ==
    /\ ~batch.active
    /\ clock < MaxCmds
    /\ LET done == DeleteOutcome(RealStorage(store, NoFault), at)
       IN  /\ store' = done.base
           /\ last' = [Carry(last.clean) EXCEPT !.cmd = "delete", !.slot = at, !.threw = done.err]
    /\ pre' = store
    /\ clock' = clock + 1
    /\ UNCHANGED <<cur, config, batch, buf>>

(***************************************************************************)
(* The scheduled entry point: runJobWithSchedule (src/src/runner/run-job.ts)*)
(* taken one slot at a time.  An exception that leaves runJobForSlot       *)
(* leaves runJobWithSchedule too: its loop has no handler.                 *)
(***************************************************************************)
\* A gate that consults the decision whatever the option says.
ScheduleGateAlways(runScheduledOnly, decision) ==
    IF decision.err THEN "threw"
    ELSE IF decision.due THEN "run"
    ELSE "not_due"

\* if (runScheduledOnly && job.schedule) { decision; if (!decision.due) return }
ScheduleGate(runScheduledOnly, decision) ==
    IF ~runScheduledOnly THEN "run"
    ELSE IF decision.err THEN "threw"
    ELSE IF decision.due THEN "run"
    ELSE "not_due"

ScheduledStart(outputFormat, backfillSlots, runScheduledOnly) ==
    /\ ~batch.active
    /\ clock + Len(listSlots(cur, backfillSlots)) <= MaxCmds
    /\ LET real == RealStorage(store, NoFault)
           gate == ScheduleGate(runScheduledOnly, getScheduleDecision(real, cur))
           registered == writeJobsRegistry(real, JobsKey, clock)
           slots == listSlots(cur, backfillSlots)
       IN  IF gate = "threw"
           THEN /\ last' = [Carry(last.clean) EXCEPT !.cmd = "scheduled", !.threw = TRUE,
                                          !.only = runScheduledOnly]
                /\ clock' = clock + 1
                /\ UNCHANGED <<store, batch>>
           ELSE IF gate = "not_due"
           THEN /\ last' = [Carry(last.clean) EXCEPT !.cmd = "scheduled",
                                          !.only = runScheduledOnly,
                                          !.slot = resolveSlotKey(cur),
                                          !.result = [NoResult EXCEPT !.status = "skipped",
                                                                      !.reason = "not_due"]]
                /\ clock' = clock + 1
                /\ UNCHANGED <<store, batch>>
           ELSE /\ store' = registered.base
                /\ batch' = [active |-> TRUE, only |-> runScheduledOnly, format |-> outputFormat,
                             slots |-> slots, queue |-> slots, results |-> <<>>]
                /\ last' = [Carry(last.clean) EXCEPT !.cmd = "scheduled", !.phase = "start",
                                          !.only = runScheduledOnly,
                                          !.slot = resolveSlotKey(cur), !.slots = slots]
                /\ clock' = clock
    /\ pre' = store
    /\ UNCHANGED <<cur, config, buf>>

\* One turn of the loop over the slots.
BatchSlotEffect(r, slot, sc) ==
    /\ store' = r.st.base
    /\ IF r.status = "threw"
       THEN /\ batch' = IdleBatch
            /\ last' = [Carry(last.clean /\ sc.fault = NoFault) EXCEPT !.cmd = "scheduled", !.slot = slot,
                                      !.only = batch.only, !.env = sc.env, !.faulty = sc.fault # NoFault, !.notify = TRUE, !.threw = TRUE, !.ran = TRUE,
                                      !.result = Kept(r), !.slots = batch.slots,
                                      !.results = batch.results]
       ELSE /\ batch' = [batch EXCEPT !.queue = Tail(@),
                                      !.results = Append(@, [slot |-> slot, status |-> r.status])]
            /\ last' = [Carry(last.clean /\ sc.fault = NoFault) EXCEPT !.cmd = "scheduled", !.phase = "slot",
                                      !.only = batch.only, !.env = sc.env, !.faulty = sc.fault # NoFault, !.slot = slot, !.notify = TRUE, !.ran = TRUE,
                                      !.result = Kept(r), !.slots = batch.slots,
                                      !.results = Append(batch.results,
                                                         [slot |-> slot, status |-> r.status])]

BatchSlot(sc) ==
    /\ batch.active
    /\ batch.queue # <<>>
    /\ BatchSlotEffect(runJobForSlot(RealStorage(store, sc.fault), Head(batch.queue),
                                     JobWith(batch.format),
                                     [notify |-> sc.notify, recordFailure |-> TRUE],
                                     sc.env, clock),
                       Head(batch.queue), sc)
    /\ clock' = clock + 1
    /\ pre' = store
    /\ UNCHANGED <<cur, config, buf>>

\* results.some(failed) ? "failed" : "success", and the return.
BatchFinish ==
    /\ batch.active
    /\ batch.queue = <<>>
    /\ LET failed == \E i \in 1..Len(batch.results) : batch.results[i].status = "failed"
       IN  last' = [Carry(last.clean) EXCEPT !.cmd = "scheduled", !.only = batch.only,
                                  !.result = [NoResult EXCEPT
                                      !.status = IF failed THEN "failed" ELSE "success"],
                                  !.slots = batch.slots, !.results = batch.results]
    /\ batch' = IdleBatch
    /\ UNCHANGED <<store, clock, cur, config, buf, pre>>

\* A monthly index file is left unparseable (a truncated or foreign write).
CorruptIndexFile(m) ==
    /\ ~batch.active
    /\ clock < MaxCmds
    /\ BaseGet(store, MonthKey(m)) # Corrupt
    /\ store' = BasePut(store, MonthKey(m), Corrupt)
    /\ last' = [Carry(FALSE) EXCEPT !.cmd = "corrupt"]
    /\ pre' = store
    /\ clock' = clock + 1
    /\ UNCHANGED <<cur, config, batch, buf>>

Next ==
    \/ Tick
    \/ \E at \in Slots, f \in Formats, sc \in CliScenarios : CmdRun(at, f, sc)
    \/ \E at \in Slots, f \in Formats, sc \in CliScenarios : CmdRerun(at, f, sc)
    \/ \E at \in Slots : CmdDelete(at)
    \/ \E f \in Formats, n \in 0..MaxBackfill, only \in BOOLEAN : ScheduledStart(f, n, only)
    \/ \E sc \in BatchScenarios : BatchSlot(sc)
    \/ BatchFinish
    \/ \E m \in Periods : CorruptIndexFile(m)

Spec == Init /\ [][Next]_vars

\* The month an index item is filed under.
PeriodOf(item) == formatMonthKey(item.start)

SlotMonthKey(slot) == MonthKey(formatMonthKey(WindowStart(slot)))

\* The items of a monthly index file of a store, none when there is no file.
ItemsOf(base, m) == ExistingItems(BaseGet(base, MonthKey(m)))

(***************************************************************************)
(* Properties of the commands and of the scheduled batch (under Spec).     *)
(* last.ran says that last.result is the result of a per-slot run that     *)
(* began with the real store at pre.                                       *)
(***************************************************************************)
\* The keys of a store under the report base of a slot.
SlotKeys(base, slot) == BaseList(base, ReportBase(slot))

\* The items of every monthly index file of a store that parses.
IndexedItems(base) ==
    UNION {{ItemsOf(base, m)[i] : i \in 1..Len(ItemsOf(base, m))} :
             m \in {p \in Periods : ~ParseFails(BaseGet(base, MonthKey(p)))}}

LatestItem(base) == loadLatest(RealStorage(base, NoFault), IndexBase).item

\* C1: a rerun that ends with a status other than success leaves every key
\* of the real store as it was before the rerun.
RerunSafe ==
    (last.cmd = "rerun" /\ last.result.status # "success") => store = pre

\* A rerun of a slot that had a run stored failed or was skipped.
RerunFailedOverRun ==
    /\ last.cmd = "rerun"
    /\ last.result.status = "failed"
    /\ last.result.error = "webhook"
    /\ last.existing # {}
    /\ store = pre

\* C2: after any sequence of scheduled runs, manual runs, reruns and deletes
\* in which no store call threw and no file was corrupted, the latest pointer
\* is the index item with the greatest slotKey among the items of the index
\* files.
LatestIsGreatest ==
    (last.clean /\ ~batch.active /\ IndexedItems(store) # {}) =>
        /\ LatestItem(store) # Null
        /\ \A item \in IndexedItems(store) : item.slotKey <= LatestItem(store).slotKey

\* A scheduled batch with backfill ran every slot with success and left the
\* latest pointer on a slot older than one it indexed.
LatestBehindAfterBackfill ==
    /\ last.cmd = "scheduled"
    /\ last.phase = "done"
    /\ last.clean
    /\ Len(last.results) > 1
    /\ \A i \in 1..Len(last.results) : last.results[i].status = "success"
    /\ LatestItem(store) # Null
    /\ \E item \in IndexedItems(store) : item.slotKey > LatestItem(store).slotKey

\* C3: a per-slot run of a job with idempotentKey whose manifest exists
\* returns skipped / idempotent, calls no collaborator and issues no put or
\* delete.
IdempotentShortCircuit ==
    (last.ran /\ config.idempotentKey /\ BaseExists(pre, ManifestKey(last.slot))) =>
        /\ last.result.status = "skipped"
        /\ last.result.reason = "idempotent"
        /\ last.result.calls = {}
        /\ last.result.puts = 0
        /\ store = pre

\* A run of a slot whose manifest exists was short-circuited.
ShortCircuited ==
    /\ last.ran
    /\ last.cmd \in {"run", "scheduled"}
    /\ config.idempotentKey
    /\ BaseExists(pre, ManifestKey(last.slot))
    /\ last.result.reason = "idempotent"

\* C4: with failure recording on, a per-slot run in which fetch, generation
\* or a write throws returns failed, and then the slot's manifest has status
\* failed with the error and the month's index has an item for the slot.
FailureRecorded ==
    (last.ran /\ last.cmd \in {"run", "scheduled"}
        /\ last.result.error \in {"fetch", "generate", "store"}) =>
        /\ last.result.status = "failed"
        /\ BaseGet(store, ManifestKey(last.slot)) = last.result.manifest
        /\ last.result.manifest.status = "failed"
        /\ last.result.manifest.error = last.result.error
        /\ \E item \in IndexedItems(store) :
             item.slotKey = last.slot /\ PeriodOf(item) = formatMonthKey(WindowStart(last.slot))

\* A run whose write threw, and whose recording of the failure threw too:
\* the exception left the run and no failed manifest is stored.
FailureNotRecorded ==
    /\ last.ran
    /\ last.cmd = "run"
    /\ last.result.error = "store"
    /\ last.result.status = "threw"
    /\ BaseGet(store, ManifestKey(last.slot)) = Null

\* C5: the scheduled batch always completes with one status per slot of its
\* slot list, whatever fails in a slot.
BatchCompletes ==
    (last.cmd = "scheduled" /\ last.phase = "done") =>
        /\ ~last.threw
        /\ Len(last.results) = Len(last.slots)

\* The first of two slots failed, recording the failure threw, and the
\* batch ended by the exception with the second slot never run.
BatchAborted ==
    /\ last.cmd = "scheduled"
    /\ last.phase = "done"
    /\ last.threw
    /\ Len(last.slots) = 2
    /\ last.slot = last.slots[1]
    /\ last.results = <<>>
    /\ SlotKeys(store, last.slots[2]) = {}

\* C8: after a successful rerun the keys under the slot's report base are
\* exactly the keys the rerun wrote.
ReplaceOnSuccess ==
    (last.cmd = "rerun" /\ last.result.status = "success" /\ ~last.threw) =>
        SlotKeys(store, last.slot) = {k \in last.committed : StartsWith(k, ReportBase(last.slot))}

\* A successful rerun removed a key of the earlier run that it did not write.
StaleKeyRemoved ==
    /\ last.cmd = "rerun"
    /\ last.result.status = "success"
    /\ ~last.threw
    /\ last.existing \ last.committed # {}
    /\ SlotKeys(store, last.slot) # {}

\* C9: a rerun is never short-circuited by the idempotency check, and after
\* a successful one the stored manifest is the one it built.
RerunReExecutes ==
    last.cmd = "rerun" =>
        /\ last.result.reason # "idempotent"
        /\ (last.result.status = "success" /\ ~last.threw) =>
             BaseGet(store, ManifestKey(last.slot)) = last.result.manifest

\* A rerun of a job with idempotentKey found the slot's manifest in the real
\* store through the buffer and was skipped.
RerunShortCircuited ==
    /\ last.cmd = "rerun"
    /\ config.idempotentKey
    /\ last.existing # {}
    /\ last.result.status = "skipped"
    /\ last.result.reason = "idempotent"
    /\ last.result.calls = {}

(***************************************************************************)
(* The buffered store on its own: a buffer is created over a real store    *)
(* that holds some objects, and is put to, deleted from, committed and     *)
(* discarded.  pre is the real store when the buffer was created or, after *)
(* a commit, when that commit began.                                       *)
(***************************************************************************)
BufKeys == {ManifestKey(1), OutputKey(1, "md"), LatestKey}
BufBody(text) == [type |-> "object", text |-> text]
BufBodies == {BufBody("old"), BufBody("new")}
CommitFaults == {NoFault} \cup {[failAt |-> k, recover |-> FALSE] : k \in 1..MaxOps}

\* What the last call on the buffer was (cmd), whether it threw, how many
\* commits and staged puts / deletes there have been, how many base calls the
\* commit made, and whether it was the first call after a discard.  view is
\* the real store as it was when the buffer was created or last emptied with
\* every put and delete issued since applied to it in the order of issue.
BufLast(cmd, threw, commits, staged, baseCalls, afterDiscard) ==
    [cmd |-> cmd, threw |-> threw, commits |-> commits, staged |-> staged,
     baseCalls |-> baseCalls, afterDiscard |-> afterDiscard, view |-> <<>>]

InitBuffer ==
    /\ \E present \in SUBSET BufKeys : store = [k \in present |-> BufBody("old")]
    /\ clock = 0
    /\ cur = 1
    /\ config = [mode |-> "pipeline", idempotentKey |-> FALSE, onEmpty |-> "manifest-only"]
    /\ batch = IdleBatch
    /\ buf = createBufferedStorage(store)
    /\ pre = store
    /\ last = [BufLast("create", FALSE, 0, 0, 0, FALSE) EXCEPT !.view = store]

BufPut(key, body) ==
    /\ clock < MaxOps
    /\ buf' = BufferedPut(buf, key, body)
    /\ store' = buf'.base
    /\ last' = [BufLast("put", FALSE, last.commits, last.staged + 1, 0, FALSE) EXCEPT
                   !.view = BasePut(last.view, key, body)]
    /\ clock' = clock + 1
    /\ UNCHANGED <<cur, config, batch, pre>>

BufDelete(key) ==
    /\ clock < MaxOps
    /\ buf' = BufferedDelete(buf, key)
    /\ store' = buf'.base
    /\ last' = [BufLast("delete", FALSE, last.commits, last.staged + 1, 0, FALSE) EXCEPT
                   !.view = BaseDelete(last.view, key)]
    /\ clock' = clock + 1
    /\ UNCHANGED <<cur, config, batch, pre>>

\* commit(): the flush, then writes.clear() and deletes.clear() unless a
\* base call threw.
BufCommitEffect(real) ==
    /\ store' = real.base
    /\ buf' = IF real.err THEN [buf EXCEPT !.base = real.base]
              ELSE [discard(buf) EXCEPT !.base = real.base]
    /\ last' = [BufLast("commit", real.err, last.commits + 1, last.staged, real.nops,
                        last.cmd = "discard") EXCEPT !.view = last.view]

BufCommit(fault) ==
    /\ clock < MaxOps
    /\ BufCommitEffect(commit(buf, RealStorage(store, fault)))
    /\ pre' = store
    /\ clock' = clock + 1
    /\ UNCHANGED <<cur, config, batch>>

BufDiscard ==
    /\ clock < MaxOps
    /\ buf' = discard(buf)
    /\ store' = buf'.base
    /\ last' = [BufLast("discard", FALSE, last.commits, last.staged, 0, FALSE) EXCEPT
                   !.view = store]
    /\ clock' = clock + 1
    /\ UNCHANGED <<cur, config, batch, pre>>

NextBuffer ==
    \/ \E key \in BufKeys, body \in BufBodies : BufPut(key, body)
    \/ \E key \in BufKeys : BufDelete(key)
    \/ \E fault \in CommitFaults : BufCommit(fault)
    \/ BufDiscard

SpecBuffer == InitBuffer /\ [][NextBuffer]_vars

(***************************************************************************)
(* Properties of the buffered store (under SpecBuffer).                    *)
(***************************************************************************)
\* The real store holds, for every key, what the buffer had staged for it
\* when the commit began: the flush is complete.
FlushComplete ==
    /\ \A i \in 1..Len(buf.writes) :
         BaseGet(store, buf.writes[i].key) = buf.writes[i].body
    /\ \A i \in 1..Len(buf.deletes) : ~BaseExists(store, buf.deletes[i])

\* C6: commit() is atomic: a commit that fails part-way leaves the real
\* store as it was when the commit began, never with only some of the staged
\* puts and deletes applied.
CommitAtomic ==
    (last.cmd = "commit" /\ last.threw) => (store = pre \/ FlushComplete)

\* A commit threw after it had applied some of the staged operations and
\* before it had applied all of them.
CommitPartial ==
    /\ last.cmd = "commit"
    /\ last.threw
    /\ last.baseCalls > 1
    /\ store # pre
    /\ ~FlushComplete

\* C7: puts and deletes through the buffer do not change the real store
\* before commit(); after discard() the real store is as it was when the
\* buffer was created, and a commit() that follows calls the base for nothing.
BufferingIsolates ==
    /\ last.commits = 0 => store = pre
    /\ (last.cmd = "commit" /\ last.afterDiscard) => (last.baseCalls = 0 /\ store = pre)

\* Puts or deletes were staged, discarded, and a commit followed.
CommitAfterDiscard ==
    /\ last.cmd = "commit"
    /\ last.afterDiscard
    /\ last.staged > 0
    /\ last.commits = 1
    /\ store # <<>>

\* The prefixes list is called with.
BufPrefixes == {<<>>, ReportBase(1), IndexBase, ReportBase(2)}

\* get, exists and list through the buffer answer as the real store would
\* with the buffered puts and deletes applied.
ReadsThroughView ==
    /\ \A key \in BufKeys :
          /\ BufferedGet(buf, key) = BaseGet(last.view, key)
          /\ BufferedExists(buf, key) = BaseExists(last.view, key)
    /\ \A prefix \in BufPrefixes : BufferedList(buf, prefix) = BaseList(last.view, prefix)
    /\ \A i \in 1..Len(buf.deletes) : ~HasKey(buf.writes, buf.deletes[i])

\* C39: at every point get, exists and list through the buffered store
\* return what the real store would return with every buffered put and
\* delete applied in the order of issue, the pending writes and deletes are
\* disjoint, and after commit() the real store is that view and the buffer
\* is empty.
BufferedViewEquivalence ==
    /\ ReadsThroughView
    /\ last.cmd = "commit" =>
          (store = last.view /\ buf.writes = <<>> /\ buf.deletes = <<>>)

\* A commit() ended with puts still in the buffer and a real store that is
\* not the view the buffer had shown.
CommitLeftBufferFull ==
    /\ last.cmd = "commit"
    /\ last.threw
    /\ buf.writes # <<>>
    /\ store # last.view
    /\ ReadsThroughView

(***************************************************************************)
(* The index maintainer on its own: updateIndex, writeLatest,              *)
(* removeIndexItemBySlot and recomputeLatest are applied to the index of   *)
(* one job, with items of successful and of failed runs.  pre is the store *)
(* before the last call.                                                   *)
(***************************************************************************)
\* The item of a slot run after the job's schedule was changed to a slot
\* type twice as long: same slotKey and manifestKey, a window that starts
\* one unit earlier.
LongSlotItem(s) ==
    [IndexItemOf(s, buildManifest(s, Null, FALSE, 0)) EXCEPT !.start = WindowStart(s) - 1]

IdxItems ==
    UNION {{IndexItemOf(s, buildManifest(s, Null, FALSE, 0)),
            IndexItemOf(s, buildFailedManifest(s, "fetch", 0))} : s \in AllSlots}
    \cup {LongSlotItem(s) : s \in (2 - MaxBackfill)..NumSlots}

IdxLast(cmd, item, present) ==
    [cmd |-> cmd, item |-> item, present |-> present, slot |-> 0, swapped |-> <<>>,
     window |-> Null, found |-> <<>>]

InitIndex ==
    /\ store = <<>>
    /\ clock = 0
    /\ cur = 1
    /\ config = [mode |-> "pipeline", idempotentKey |-> FALSE, onEmpty |-> "manifest-only"]
    /\ batch = IdleBatch
    /\ buf = createBufferedStorage(<<>>)
    /\ pre = <<>>
    /\ last = IdxLast("none", Null, FALSE)

IdxUpdate(item) ==
    /\ clock < MaxOps
    /\ store' = updateIndex(RealStorage(store, NoFault), MonthKey(PeriodOf(item)),
                            PeriodOf(item), item).base
    /\ last' = IdxLast("updateIndex", item,
                       HasManifestKey(ItemsOf(store, PeriodOf(item)), item.manifestKey))
    /\ pre' = store
    /\ clock' = clock + 1
    /\ UNCHANGED <<cur, config, batch, buf>>

\* updateIndex for two items of one month with different manifestKeys, the
\* first and then the second; last.swapped holds the items the file would
\* have had the second been applied first.
IdxUpdateBoth(first, second) ==
    /\ clock + 2 <= MaxOps
    /\ first.manifestKey # second.manifestKey
    /\ PeriodOf(first) = PeriodOf(second)
    /\ store' = updateIndex(updateIndex(RealStorage(store, NoFault), MonthKey(PeriodOf(first)),
                                        PeriodOf(first), first),
                            MonthKey(PeriodOf(second)), PeriodOf(second), second).base
    /\ last' = [IdxLast("updateIndex twice", second, FALSE) EXCEPT
                   !.swapped = updateIndex(updateIndex(RealStorage(store, NoFault),
                                                       MonthKey(PeriodOf(second)),
                                                       PeriodOf(second), second),
                                           MonthKey(PeriodOf(first)), PeriodOf(first),
                                           first).base[MonthKey(PeriodOf(first))].items]
    /\ pre' = store
    /\ clock' = clock + 2
    /\ UNCHANGED <<cur, config, batch, buf>>

IdxWriteLatest(item) ==
    /\ clock < MaxOps
    /\ store' = writeLatest(RealStorage(store, NoFault), LatestKey, item).base
    /\ last' = IdxLast("writeLatest", item, FALSE)
    /\ pre' = store
    /\ clock' = clock + 1
    /\ UNCHANGED <<cur, config, batch, buf>>

IdxRemove(slot) ==
    /\ clock < MaxOps
    /\ store' = removeIndexItemBySlot(RealStorage(store, NoFault),
                                      MonthKey(formatMonthKey(WindowStart(slot))), slot).base
    /\ last' = [IdxLast("removeIndexItemBySlot",
                         RemovedBySlot(RealStorage(store, NoFault),
                                       MonthKey(formatMonthKey(WindowStart(slot))), slot),
                         FALSE)
                 EXCEPT !.slot = slot]
    /\ pre' = store
    /\ clock' = clock + 1
    /\ UNCHANGED <<cur, config, batch, buf>>

IdxRecompute ==
    /\ clock < MaxOps
    /\ store' = recomputeLatest(RealStorage(store, NoFault), IndexBase).base
    /\ last' = IdxLast("recomputeLatest", Null, FALSE)
    /\ pre' = store
    /\ clock' = clock + 1
    /\ UNCHANGED <<cur, config, batch, buf>>

\* The windows a range query is made with.
RangeWindows ==
    {[start |-> a, end |-> b] : a, b \in (0 - MaxBackfill)..NumSlots} \ 
    {w \in [start : (0 - MaxBackfill)..NumSlots, end : (0 - MaxBackfill)..NumSlots] :
        w.start >= w.end}

\* start < windowEnd && end > windowStart; the window of an item ends at the
\* instant its slotKey names.
overlapsWindow(item, window) ==
    item.start < window.end /\ item.slotKey > window.start

\* while (cursor <= end) { months.add(formatMonthKey(cursor)); cursor += one day }
\* with a slot unit for the day.
RECURSIVE MonthKeysFrom(_, _)
MonthKeysFrom(cursor, end) ==
    IF cursor > end THEN {}
    ELSE {formatMonthKey(cursor)} \cup MonthKeysFrom(cursor + 1, end)

listMonthKeys(start, end) == SortedSeq(MonthKeysFrom(start, end))

Overlapping(items, window) == SelectSeq(items, LAMBDA item : overlapsWindow(item, window))

\* for (const month of months) { get; if (!text) continue; JSON.parse; filter }
RECURSIVE RangeItems(_, _, _, _)
RangeItems(st, indexBase, months, window) ==
    IF months = <<>> THEN [err |-> FALSE, items |-> <<>>]
    ELSE
        LET loaded == loadIndexFile(st, Append(indexBase, ToString(Head(months)) \o ".json"))
            rest == RangeItems(st, indexBase, Tail(months), window)
        IN  IF loaded.err \/ rest.err THEN [err |-> TRUE, items |-> <<>>]
            ELSE [err |-> FALSE,
                  items |-> Overlapping(ExistingItems(loaded.file), window) \o rest.items]

loadIndexItemsForRange(st, indexBase, window) ==
    SortByStart(RangeItems(st, indexBase, listMonthKeys(window.start, window.end), window).items)

IdxRange(window) ==
    /\ clock < MaxOps
    /\ last' = [IdxLast("loadIndexItemsForRange", Null, FALSE) EXCEPT
                   !.window = window,
                   !.found = loadIndexItemsForRange(RealStorage(store, NoFault), IndexBase,
                                                    window)]
    /\ pre' = store
    /\ clock' = clock + 1
    /\ UNCHANGED <<store, cur, config, batch, buf>>

NextIndex ==
    \/ \E item \in IdxItems : IdxUpdate(item)
    \/ \E first, second \in IdxItems : IdxUpdateBoth(first, second)
    \/ \E item \in IdxItems : IdxWriteLatest(item)
    \/ \E slot \in AllSlots : IdxRemove(slot)
    \/ IdxRecompute
    \/ \E window \in RangeWindows : IdxRange(window)

SpecIndex == InitIndex /\ [][NextIndex]_vars

(***************************************************************************)
(* Properties of the index maintainer (under SpecIndex).                   *)
(***************************************************************************)
\* C10: updateIndex called with an item whose manifestKey is already in the
\* monthly file leaves the file's items as they were.
MergeIdempotent ==
    (last.cmd = "updateIndex" /\ last.present) =>
        ItemsOf(store, PeriodOf(last.item)) = ItemsOf(pre, PeriodOf(last.item))

\* updateIndex was called with an item that differs from the one the file
\* holds under the same manifestKey.
MergedTwice ==
    /\ last.cmd = "updateIndex"
    /\ last.present
    /\ \E i \in 1..Len(ItemsOf(store, PeriodOf(last.item))) :
         /\ ItemsOf(store, PeriodOf(last.item))[i].manifestKey = last.item.manifestKey
         /\ ItemsOf(store, PeriodOf(last.item))[i] # last.item
    /\ Len(ItemsOf(store, PeriodOf(last.item))) > 1

\* C11: after any sequence of updateIndex and removeIndexItemBySlot calls
\* (and the latest-pointer calls between them), every monthly index file
\* holds at most one item per manifestKey and its items are in ascending
\* order of window.start.
IndexWellFormed ==
    \A m \in Periods :
        /\ \A i, j \in 1..Len(ItemsOf(store, m)) :
             ItemsOf(store, m)[i].manifestKey = ItemsOf(store, m)[j].manifestKey => i = j
        /\ \A i, j \in 1..Len(ItemsOf(store, m)) :
             i < j => ItemsOf(store, m)[i].start <= ItemsOf(store, m)[j].start

\* updateIndex put a new item in front of one with a later window.start.
InsertedInFront ==
    /\ last.cmd = "updateIndex"
    /\ ~last.present
    /\ Len(ItemsOf(store, PeriodOf(last.item))) = 2
    /\ ItemsOf(store, PeriodOf(last.item))[1] = last.item
    /\ ItemsOf(store, PeriodOf(last.item))[2].start > last.item.start

\* C12: after recomputeLatest the latest pointer is the item with the
\* greatest slotKey among the items of all monthly index files, and there
\* is no pointer when there are no items.
RecomputedLatestIsGreatest ==
    last.cmd = "recomputeLatest" =>
        IF IndexedItems(store) = {}
        THEN ~BaseExists(store, LatestKey)
        ELSE /\ LatestItem(store) \in IndexedItems(store)
             /\ \A item \in IndexedItems(store) : item.slotKey <= LatestItem(store).slotKey

\* recomputeLatest moved the pointer to an item of a later month than the
\* first file's, which is not the first item it read.
RecomputedAcrossMonths ==
    /\ last.cmd = "recomputeLatest"
    /\ Cardinality(IndexedItems(store)) >= 2
    /\ Cardinality({PeriodOf(item) : item \in IndexedItems(store)}) = 2
    /\ LatestItem(store) # Null
    /\ LatestItem(pre) # LatestItem(store)

(***************************************************************************)
(* The commands alone, on a store where nothing ever goes wrong: every     *)
(* collaborator works and no store call fails.  reporter run and reporter  *)
(* delete are given any slot, past ones included.                          *)
(***************************************************************************)
MaxHistory == 4

InitManual == Init

ManualRun(at) ==
    /\ clock < MaxHistory
    /\ RunEffect(runJobForSlot(RealStorage(store, NoFault), at, JobWith("markdown"),
                               [notify |-> FALSE, recordFailure |-> TRUE], AllOk, clock),
                 at, Scenario(FALSE, AllOk, NoFault))
    /\ pre' = store
    /\ clock' = clock + 1
    /\ UNCHANGED <<cur, config, batch, buf>>

ManualDelete(at) ==
    /\ clock < MaxHistory
    /\ store' = DeleteOutcome(RealStorage(store, NoFault), at).base
    /\ last' = [Carry(last.clean) EXCEPT !.cmd = "delete", !.slot = at,
                              !.threw = DeleteOutcome(RealStorage(store, NoFault), at).err]
    /\ pre' = store
    /\ clock' = clock + 1
    /\ UNCHANGED <<cur, config, batch, buf>>

NextManual ==
    \/ \E at \in AllSlots : ManualRun(at)
    \/ \E at \in AllSlots : ManualDelete(at)

SpecManual == InitManual /\ [][NextManual]_vars

\* C13: after the delete command for a slot completes, no key exists under
\* the slot's report base, no monthly index file holds an item with the
\* slot's key, and the latest pointer names the greatest remaining slotKey
\* or is absent when nothing remains.
DeletePostcondition ==
    (last.cmd = "delete" /\ ~last.threw) =>
        /\ SlotKeys(store, last.slot) = {}
        /\ \A item \in IndexedItems(store) : item.slotKey # last.slot
        /\ IF IndexedItems(store) = {}
           THEN ~BaseExists(store, LatestKey)
           ELSE /\ LatestItem(store) \in IndexedItems(store)
                /\ \A item \in IndexedItems(store) : item.slotKey <= LatestItem(store).slotKey

\* A delete completed and left the latest pointer on a slot that is not the
\* greatest of the index.
DeleteLeftStaleLatest ==
    /\ last.cmd = "delete"
    /\ ~last.threw
    /\ last.clean
    /\ LatestItem(store) # Null
    /\ \E item \in IndexedItems(store) : item.slotKey > LatestItem(store).slotKey

\* C14: the schedule decision is due exactly when there is no latest
\* pointer or the pointer's slotKey is below the current slot's key, and
\* taking the decision writes nothing: a scheduled invocation that is not
\* due leaves the store as it was, and one that is due has changed nothing
\* but the jobs registry when its first slot is about to run.  last.slot
\* is the key of the slot that was current at the decision.
DueDecision ==
    (last.cmd = "scheduled" /\ last.only /\ ~last.threw) =>
        /\ last.phase = "start" =>
             /\ ~BaseExists(pre, LatestKey) \/ pre[LatestKey].latest.slotKey < last.slot
             /\ \A key \in (DOMAIN store \cup DOMAIN pre) \ {JobsKey} :
                  BaseGet(store, key) = BaseGet(pre, key)
        /\ last.result.reason = "not_due" =>
             /\ BaseExists(pre, LatestKey)
             /\ pre[LatestKey].latest.slotKey >= last.slot
             /\ store = pre

\* A scheduled invocation was not due because the pointer names the
\* current slot.
NotDueForCurrentSlot ==
    /\ last.cmd = "scheduled"
    /\ last.only
    /\ last.result.reason = "not_due"
    /\ BaseExists(pre, LatestKey)
    /\ pre[LatestKey].latest.slotKey = last.slot

\* Whether the last operation was a manual invocation.
IsManual == last.cmd = "run" \/ (last.cmd = "scheduled" /\ ~last.only)

\* C15 as stated: a manual invocation is never skipped as not due and runs
\* the resolved slot whatever exists for it, so the source is always called.
ManualAlwaysRuns ==
    IsManual =>
        /\ last.result.reason # "not_due"
        /\ last.ran => last.result.calls # {}

\* C15: a manual invocation never consults the schedule decision, so it is
\* never skipped as not due whatever the latest pointer, and it hands the
\* resolved slot to the processor, which calls the source unless the job has
\* idempotentKey set and the slot's manifest exists.
ManualBypassesDecision ==
    IsManual =>
        /\ last.result.reason # "not_due"
        /\ last.ran =>
             \/ last.result.calls # {}
             \/ config.idempotentKey /\ BaseExists(pre, ManifestKey(last.slot))

\* runJobWithSchedule with runScheduledOnly = false ran the current slot
\* while the latest pointer already named it.
ManualRanWhenNotDue ==
    /\ last.cmd = "scheduled"
    /\ ~last.only
    /\ last.ran
    /\ last.slot = cur
    /\ BaseExists(pre, LatestKey)
    /\ pre[LatestKey].latest.slotKey >= cur
    /\ last.result.calls # {}

(***************************************************************************)
(* The slot calculator (src/src/github-rate-limit.ts) on the calendar.     *)
(* An instant is a Date's time value in minutes: the calculator never      *)
(* reads seconds.  The calendar is ECMAScript's: Date.UTC carries a month  *)
(* index outside 0..11 into the year and a day outside the month into the  *)
(* following months.                                                       *)
(***************************************************************************)
IsLeapYear(y) == (y % 4 = 0 /\ y % 100 # 0) \/ y % 400 = 0

DaysInMonth(y, m) ==
    IF m = 2 THEN (IF IsLeapYear(y) THEN 29 ELSE 28)
    ELSE IF m \in {4, 6, 9, 11} THEN 30
    ELSE 31

\* The day number of 1 January of a year, counted from 1 January 1970.
DayFromYear(y) ==
    365 * (y - 1970) + ((y - 1969) \div 4) - ((y - 1901) \div 100) + ((y - 1601) \div 400)

\* The days of a common year before each month.
DaysBeforeMonth == <<0, 31, 59, 90, 120, 151, 181, 212, 243, 273, 304, 334>>

DayWithinYear(y, m) == DaysBeforeMonth[m] + (IF m > 2 /\ IsLeapYear(y) THEN 1 ELSE 0)

\* Date.UTC(year, monthIndex, day, hour, minute) / 60000
DateUTC(year, monthIndex, day, hour, minute) ==
    ((DayFromYear(year + (monthIndex \div 12))
        + DayWithinYear(year + (monthIndex \div 12), (monthIndex % 12) + 1)
        + (day - 1)) * 24 + hour) * 60 + minute

\* getUTCFullYear, getUTCMonth() + 1, getUTCDate, getUTCHours, getUTCMinutes
\* and getUTCDay of an instant.
DayOf(t) == t \div 1440

YearFromTime(t) ==
    IF DayFromYear(1970 + (DayOf(t) \div 365)) <= DayOf(t)
    THEN 1970 + (DayOf(t) \div 365)
    ELSE 1969 + (DayOf(t) \div 365)

\* The month of the day of a year, the days counted from 0.
MonthOfDay(y, d) ==
    CHOOSE m \in 1..12 : DayWithinYear(y, m) <= d /\ d < DayWithinYear(y, m) + DaysInMonth(y, m)

MonthIn(y, t) == MonthOfDay(y, DayOf(t) - DayFromYear(y))

MonthFromTime(t) == MonthIn(YearFromTime(t), t)

DateIn(y, m, t) == DayOf(t) - DayFromYear(y) - DayWithinYear(y, m) + 1

DateFromTime(t) == DateIn(YearFromTime(t), MonthFromTime(t), t)

HourFromTime(t) == (t % 1440) \div 60

MinFromTime(t) == t % 60

WeekDay(t) == (DayOf(t) + 4) % 7

(***************************************************************************)
(* What Intl.DateTimeFormat knows of a time zone: its offset from UTC at   *)
(* an instant.  America/New_York is on daylight time from the second       *)
(* Sunday of March 07:00 UTC to the first Sunday of November 06:00 UTC,    *)
(* Europe/Ljubljana from the last Sunday of March 01:00 UTC to the last    *)
(* Sunday of October 01:00 UTC.                                            *)
(***************************************************************************)
TimeZones == {"UTC", "America/New_York", "Europe/Ljubljana"}

\* The first Sunday of a month that is on or after a day of the month.
SundayFrom(y, m, d) == d + ((7 - WeekDay(DateUTC(y, m - 1, d, 0, 0))) % 7)

DstStart(y, timeZone) ==
    IF timeZone = "America/New_York" THEN DateUTC(y, 2, SundayFrom(y, 3, 8), 7, 0)
    ELSE DateUTC(y, 2, SundayFrom(y, 3, 25), 1, 0)

DstEnd(y, timeZone) ==
    IF timeZone = "America/New_York" THEN DateUTC(y, 10, SundayFrom(y, 11, 1), 6, 0)
    ELSE DateUTC(y, 9, SundayFrom(y, 10, 25), 1, 0)

StandardOffset(timeZone) ==
    IF timeZone = "America/New_York" THEN 0 - 300
    ELSE IF timeZone = "Europe/Ljubljana" THEN 60
    ELSE 0

DaylightIn(y, t, timeZone) == DstStart(y, timeZone) <= t /\ t < DstEnd(y, timeZone)

IsDaylight(t, timeZone) == timeZone # "UTC" /\ DaylightIn(YearFromTime(t), t, timeZone)

\* (asUtc - date.getTime()) / 60000
getOffsetMinutes(date, timeZone) ==
    StandardOffset(timeZone) + (IF IsDaylight(date, timeZone) THEN 60 ELSE 0)

PartsIn(y, m, t) ==
    [year |-> y, month |-> m, day |-> DateIn(y, m, t),
     hour |-> HourFromTime(t), minute |-> MinFromTime(t), weekday |-> WeekDay(t)]

PartsOf(t) == PartsIn(YearFromTime(t), MonthFromTime(t), t)

getZonedParts(date, timeZone) == PartsOf(date + getOffsetMinutes(date, timeZone))

\* A field of SlotSchedule that is not given.
Absent == 0 - 1

\* value ?? fallback
OrElse(value, fallback) == IF value = Absent THEN fallback ELSE value

\* { ...parts, year, month, day } of a Date
WithDateIn(parts, y, m, t) == [parts EXCEPT !.year = y, !.month = m, !.day = DateIn(y, m, t)]

WithDate(parts, t) == WithDateIn(parts, YearFromTime(t), MonthFromTime(t), t)

shiftLocalDays(parts, deltaDays) ==
    WithDate(parts, DateUTC(parts.year, parts.month - 1, parts.day, 0, 0) + deltaDays * 1440)

\* setUTCMonth on the date that Date.UTC made of the fields.
MonthsFrom(t, deltaMonths) ==
    DateUTC(YearFromTime(t), (MonthFromTime(t) - 1) + deltaMonths, DateFromTime(t), 0, 0)

shiftLocalMonths(parts, deltaMonths) ==
    WithDate(parts, MonthsFrom(DateUTC(parts.year, parts.month - 1, parts.day, 0, 0), deltaMonths))

\* setUTCFullYear on the date that Date.UTC made of the fields.
YearsFrom(t, deltaYears) ==
    DateUTC(YearFromTime(t) + deltaYears, MonthFromTime(t) - 1, DateFromTime(t), 0, 0)

shiftLocalYears(parts, deltaYears) ==
    WithDate(parts, YearsFrom(DateUTC(parts.year, parts.month - 1, parts.day, 0, 0), deltaYears))

\* { ...parts, year, month, day, hour, minute } of a Date
WithDateTime(parts, t) ==
    [WithDate(parts, t) EXCEPT !.hour = HourFromTime(t), !.minute = MinFromTime(t)]

shiftLocalHours(parts, deltaHours) ==
    WithDateTime(parts, DateUTC(parts.year, parts.month - 1, parts.day, parts.hour, parts.minute)
                          + deltaHours * 60)

zonedTimeToUtc(parts, timeZone) ==
    LET utcGuess == DateUTC(parts.year, parts.month - 1, parts.day, parts.hour, parts.minute)
    IN  utcGuess - getOffsetMinutes(utcGuess, timeZone)

shiftSlotEnd(parts, schedule, delta) ==
    IF schedule.type = "hourly" THEN shiftLocalHours(parts, delta)
    ELSE IF schedule.type = "daily" THEN shiftLocalDays(parts, delta)
    ELSE IF schedule.type = "weekly" THEN shiftLocalDays(parts, delta * 7)
    ELSE IF schedule.type = "monthly" THEN shiftLocalMonths(parts, delta)
    ELSE shiftLocalYears(parts, delta)

\* parts.hour < hour || (parts.hour === hour && parts.minute < minute)
BeforeTimeOfDay(parts, hour, minute) ==
    parts.hour < hour \/ (parts.hour = hour /\ parts.minute < minute)

\* let delta = parts.weekday - weekday; if (delta < 0) delta += 7; ...
WeekDelta(parts, weekday, hour, minute) ==
    IF parts.weekday = weekday
    THEN (IF BeforeTimeOfDay(parts, hour, minute) THEN 7 ELSE 0)
    ELSE (parts.weekday - weekday) % 7

ResolveFrom(parts, schedule, minute, hour, dayOfMonth, month) ==
    IF schedule.type = "hourly"
    THEN IF parts.minute < minute
         THEN shiftLocalHours([parts EXCEPT !.minute = minute], 0 - 1)
         ELSE [parts EXCEPT !.minute = minute]
    ELSE IF schedule.type = "daily"
    THEN IF BeforeTimeOfDay(parts, hour, minute)
         THEN shiftLocalDays([parts EXCEPT !.hour = hour, !.minute = minute], 0 - 1)
         ELSE [parts EXCEPT !.hour = hour, !.minute = minute]
    ELSE IF schedule.type = "weekly"
    THEN shiftLocalDays([parts EXCEPT !.hour = hour, !.minute = minute],
                        0 - WeekDelta(parts, OrElse(schedule.weekday, 0), hour, minute))
    ELSE IF schedule.type = "monthly"
    THEN IF parts.day < dayOfMonth \/ (parts.day = dayOfMonth /\ BeforeTimeOfDay(parts, hour, minute))
         THEN shiftLocalMonths([parts EXCEPT !.day = dayOfMonth, !.hour = hour, !.minute = minute], 0 - 1)
         ELSE [parts EXCEPT !.day = dayOfMonth, !.hour = hour, !.minute = minute]
    ELSE IF \/ parts.month < month
            \/ /\ parts.month = month
               /\ \/ parts.day < dayOfMonth
                  \/ (parts.day = dayOfMonth /\ BeforeTimeOfDay(parts, hour, minute))
         THEN shiftLocalYears([parts EXCEPT !.month = month, !.day = dayOfMonth,
                                            !.hour = hour, !.minute = minute], 0 - 1)
         ELSE [parts EXCEPT !.month = month, !.day = dayOfMonth, !.hour = hour, !.minute = minute]

resolveSlotEndParts(now, schedule, timeZone) ==
    ResolveFrom(getZonedParts(now, timeZone), schedule,
                OrElse(schedule.minute, 0), OrElse(schedule.hour, 0),
                OrElse(schedule.dayOfMonth, 1), OrElse(schedule.month, 1))

\* The characters of a slot key in the order of their code units.
KeyChars == <<"-", "0", "1", "2", "3", "4", "5", "6", "7", "8", "9", "T", "Z">>

Digit(d) == KeyChars[d + 2]

Pad2(n) == <<Digit((n \div 10) % 10), Digit(n % 10)>>

Pad4(n) == Pad2(n \div 100) \o Pad2(n % 100)

\* toISOString().slice(0, 10) and .slice(11, 16) with ":" replaced, as the
\* sequence of the key's characters.
KeyOfParts(iso) ==
    Pad4(iso.year) \o <<"-">> \o Pad2(iso.month) \o <<"-">> \o Pad2(iso.day) \o <<"T">>
        \o Pad2(iso.hour) \o <<"-">> \o Pad2(iso.minute) \o <<"Z">>

formatSlotKeyUtc(dateUtc) == KeyOfParts(PartsOf(dateUtc))

SlotWindow(endUtc, startUtc, schedule) ==
    [slotKey |-> formatSlotKeyUtc(endUtc),
     slotType |-> schedule.type,
     scheduledAt |-> endUtc,
     window |-> [start |-> startUtc, end |-> endUtc]]

buildSlotWindow(slotEnd, schedule, timeZone) ==
    SlotWindow(zonedTimeToUtc(slotEnd, timeZone),
               zonedTimeToUtc(shiftSlotEnd(slotEnd, schedule, 0 - 1), timeZone), schedule)

\* The loop of listSlots: a slot of the cursor, then the cursor one unit back.
RECURSIVE SlotsFromCursor(_, _, _, _)
SlotsFromCursor(cursor, schedule, timeZone, totalSlots) ==
    IF totalSlots = 0 THEN <<>>
    ELSE <<buildSlotWindow(cursor, schedule, timeZone)>>
            \o SlotsFromCursor(shiftSlotEnd(cursor, schedule, 0 - 1), schedule, timeZone,
                               totalSlots - 1)

\* listSlots of the slot calculator, with the schedule and the time zone.
listSlotWindows(now, schedule, timeZone, backfillSlots) ==
    SlotsFromCursor(resolveSlotEndParts(now, schedule, timeZone), schedule, timeZone,
                    IF backfillSlots > 1 THEN backfillSlots ELSE 1)

(***************************************************************************)
(* The slot calculator on its own: a job's schedule and time zone and an   *)
(* instant are given, and one of its functions is applied.  cur is now,    *)
(* config the schedule with the time zone, last what the function returned.*)
(***************************************************************************)
SlotTypes == {"hourly", "daily", "weekly", "monthly", "yearly"}

SlotMinutes == {0, 30}

SlotHours == {0, 3}

SlotWeekdays == {0, 3}

SlotDaysOfMonth == {1, 29, 31}

SlotMonths == {2, 11}

Bare(type) ==
    [type |-> type, minute |-> Absent, hour |-> Absent, weekday |-> Absent,
     dayOfMonth |-> Absent, month |-> Absent]

Schedules ==
    {Bare(type) : type \in SlotTypes}
    \cup {[Bare("hourly") EXCEPT !.minute = m] : m \in SlotMinutes}
    \cup {[Bare("daily") EXCEPT !.hour = h, !.minute = m] : h \in SlotHours, m \in SlotMinutes}
    \cup {[Bare("weekly") EXCEPT !.weekday = w, !.hour = h] : w \in SlotWeekdays, h \in SlotHours}
    \cup {[Bare("monthly") EXCEPT !.dayOfMonth = d, !.hour = h] :
            d \in SlotDaysOfMonth, h \in SlotHours}
    \cup {[Bare("yearly") EXCEPT !.month = mo, !.dayOfMonth = d] :
            mo \in SlotMonths, d \in SlotDaysOfMonth}

\* The days now is taken from: the first of March, days on which a zone
\* changes its clocks and the day after one, every half hour of each.
NowDays ==
    {DateUTC(2024, 2, 1, 0, 0), DateUTC(2024, 2, 10, 0, 0), DateUTC(2024, 2, 31, 0, 0),
     DateUTC(2024, 10, 3, 0, 0), DateUTC(2024, 10, 4, 0, 0)}

Nows == {day + 30 * k : day \in NowDays, k \in 0..47}

SlotLast(cmd, parts, slots) == [cmd |-> cmd, parts |-> parts, slots |-> slots, backfillSlots |-> 0]

NoParts == PartsOf(0)

InitSlots ==
    /\ store = <<>>
    /\ clock = 0
    /\ cur \in Nows
    /\ config \in [schedule : Schedules, timeZone : TimeZones]
    /\ batch = IdleBatch
    /\ buf = createBufferedStorage(<<>>)
    /\ pre = <<>>
    /\ last = SlotLast("none", NoParts, <<>>)

SlotResolve ==
    /\ last.cmd = "none"
    /\ last' = SlotLast("resolveSlotEndParts",
                        resolveSlotEndParts(cur, config.schedule, config.timeZone), <<>>)
    /\ UNCHANGED <<store, clock, cur, config, batch, buf, pre>>

SlotBuild ==
    /\ last.cmd = "none"
    /\ last' = SlotLast("buildSlotWindow",
                        resolveSlotEndParts(cur, config.schedule, config.timeZone),
                        <<buildSlotWindow(resolveSlotEndParts(cur, config.schedule, config.timeZone),
                                          config.schedule, config.timeZone)>>)
    /\ UNCHANGED <<store, clock, cur, config, batch, buf, pre>>

SlotList(backfillSlots) ==
    /\ last.cmd = "none"
    /\ last' = [SlotLast("listSlots",
                         resolveSlotEndParts(cur, config.schedule, config.timeZone),
                         listSlotWindows(cur, config.schedule, config.timeZone, backfillSlots))
                EXCEPT !.backfillSlots = backfillSlots]
    /\ UNCHANGED <<store, clock, cur, config, batch, buf, pre>>

\* setUTCDate on Date.UTC(year, month - 1, day), read back as a date.
shiftLocalDate(parts, deltaDays) ==
    LET t == DateUTC(parts.year, parts.month - 1, parts.day, 0, 0) + deltaDays * 1440
    IN  [year |-> YearFromTime(t), month |-> MonthFromTime(t), day |-> DateFromTime(t)]

zonedDateTimeToUtc(parts, timeZone) ==
    LET utcGuess == DateUTC(parts.year, parts.month - 1, parts.day, parts.hour, parts.minute)
    IN  utcGuess - getOffsetMinutes(utcGuess, timeZone)

AtTime(date, hour, minute) ==
    [year |-> date.year, month |-> date.month, day |-> date.day, hour |-> hour, minute |-> minute]

\* resolveAtForSchedule of a date-only value: the schedule time of the next
\* day for a daily schedule, else parseAtToDate's local midnight of the date.
resolveAtForSchedule(date, schedule, timeZone) ==
    IF schedule.type = "daily"
    THEN zonedDateTimeToUtc(AtTime(shiftLocalDate(date, 1), OrElse(schedule.hour, 0),
                                   OrElse(schedule.minute, 0)),
                            timeZone)
    ELSE zonedDateTimeToUtc(AtTime(date, 0, 0), timeZone)

resolveSlotForAt(date, schedule, timeZone) ==
    buildSlotWindow(resolveSlotEndParts(resolveAtForSchedule(date, schedule, timeZone),
                                        schedule, timeZone),
                    schedule, timeZone)

\* run, rerun or delete with --at YYYY-MM-DD: the date is the UTC day of cur
\* or the day before it; last.parts holds the date.
SlotAt(back) ==
    /\ last.cmd = "none"
    /\ last' = SlotLast("resolveSlotForAt", PartsOf((DayOf(cur) - back) * 1440),
                        <<resolveSlotForAt(PartsOf((DayOf(cur) - back) * 1440),
                                           config.schedule, config.timeZone)>>)
    /\ UNCHANGED <<store, clock, cur, config, batch, buf, pre>>

NextSlots ==
    \/ SlotResolve
    \/ SlotBuild
    \/ \E backfillSlots \in 0..MaxBackfill : SlotList(backfillSlots)
    \/ \E back \in {0, 1} : SlotAt(back)

SpecSlots == InitSlots /\ [][NextSlots]_vars

\* The instant of local calendar fields, as the calculator converts them.
InstantOf(parts) == zonedTimeToUtc(parts, config.timeZone)

\* C16: for every now, schedule and time zone, the fields resolveSlotEndParts
\* returns are the most recent slot-end boundary at or before now: their
\* instant is <= now and the boundary one schedule unit later is > now.
MostRecentBoundary ==
    last.cmd = "resolveSlotEndParts" =>
        /\ InstantOf(last.parts) <= cur
        /\ InstantOf(shiftSlotEnd(last.parts, config.schedule, 1)) > cur

\* resolveSlotEndParts returned a boundary that lies after now.
BoundaryAfterNow ==
    /\ last.cmd = "resolveSlotEndParts"
    /\ InstantOf(last.parts) > cur

\* C17: a slot built by buildSlotWindow has window.end = scheduledAt and
\* slotKey = formatSlotKey(scheduledAt), its window.start is the slot end
\* moved back one unit of the slot type in local calendar fields, and
\* window.start < window.end.
SlotInvariant ==
    last.cmd = "buildSlotWindow" =>
        /\ last.slots[1].window.end = last.slots[1].scheduledAt
        /\ last.slots[1].slotKey = formatSlotKeyUtc(last.slots[1].scheduledAt)
        /\ last.slots[1].window.start = InstantOf(shiftSlotEnd(last.parts, config.schedule, 0 - 1))
        /\ last.slots[1].window.start < last.slots[1].window.end

\* buildSlotWindow built a slot whose window is empty.
EmptyWindow ==
    /\ last.cmd = "buildSlotWindow"
    /\ last.slots[1].window.start >= last.slots[1].window.end

\* The local calendar fields of a slot's end, read back from scheduledAt.
LocalEnd(slot) == getZonedParts(slot.scheduledAt, config.timeZone)

\* The local fields as a wall-clock reading, in minutes.
WallClock(parts) == DateUTC(parts.year, parts.month - 1, parts.day, parts.hour, parts.minute)

\* Whether the local fields later are one unit of the slot type after the
\* local fields earlier.
OneUnitApart(earlier, later, type) ==
    IF type = "hourly" THEN WallClock(later) - WallClock(earlier) = 60
    ELSE IF type = "daily" THEN WallClock(later) - WallClock(earlier) = 1440
    ELSE IF type = "weekly" THEN WallClock(later) - WallClock(earlier) = 7 * 1440
    ELSE IF type = "monthly"
    THEN /\ (later.year * 12 + later.month) - (earlier.year * 12 + earlier.month) = 1
         /\ later.hour = earlier.hour /\ later.minute = earlier.minute
    ELSE /\ later.year - earlier.year = 1
         /\ later.hour = earlier.hour /\ later.minute = earlier.minute

\* C18: listSlots returns max(1, backfillSlots) slots, the first being the
\* current slot as of now, with strictly decreasing scheduledAt, each
\* consecutive pair one schedule unit apart in local calendar terms.
SlotMonotonicity ==
    last.cmd = "listSlots" =>
        /\ Len(last.slots) = (IF last.backfillSlots > 1 THEN last.backfillSlots ELSE 1)
        /\ last.slots[1] = buildSlotWindow(last.parts, config.schedule, config.timeZone)
        /\ \A i \in 1..(Len(last.slots) - 1) :
             /\ last.slots[i + 1].scheduledAt < last.slots[i].scheduledAt
             /\ OneUnitApart(LocalEnd(last.slots[i + 1]), LocalEnd(last.slots[i]),
                             config.schedule.type)

\* listSlots returned two consecutive slots with the same scheduledAt.
SlotsNotDecreasing ==
    /\ last.cmd = "listSlots"
    /\ \E i \in 1..(Len(last.slots) - 1) :
         last.slots[i + 1].scheduledAt >= last.slots[i].scheduledAt

\* The code unit order of the characters of a key.
CharRank(c) == CHOOSE i \in 1..Len(KeyChars) : KeyChars[i] = c

\* key1 < key2 as JavaScript compares strings.
RECURSIVE LexLess(_, _)
LexLess(key1, key2) ==
    IF key1 = <<>> THEN key2 # <<>>
    ELSE IF key2 = <<>> THEN FALSE
    ELSE IF Head(key1) = Head(key2) THEN LexLess(Tail(key1), Tail(key2))
    ELSE CharRank(Head(key1)) < CharRank(Head(key2))

\* The local slot end of the i-th slot of a list that starts at parts.
RECURSIVE CursorAt(_, _)
CursorAt(parts, i) ==
    IF i = 1 THEN parts ELSE shiftSlotEnd(CursorAt(parts, i - 1), config.schedule, 0 - 1)

\* C19: for any two slots of one job, slotKey1 < slotKey2 exactly when
\* scheduledAt1 < scheduledAt2, and two slots with different local slot
\* ends do not share a slotKey.
SlotKeysOrderedAndDistinct ==
    last.cmd = "listSlots" =>
        \A i, j \in 1..Len(last.slots) :
            /\ LexLess(last.slots[i].slotKey, last.slots[j].slotKey)
                 <=> last.slots[i].scheduledAt < last.slots[j].scheduledAt
            /\ CursorAt(last.parts, i) # CursorAt(last.parts, j)
                 => last.slots[i].slotKey # last.slots[j].slotKey

\* Two slots of a list with different local slot ends have the same key.
SlotKeyCollision ==
    /\ last.cmd = "listSlots"
    /\ \E i, j \in 1..Len(last.slots) :
         /\ CursorAt(last.parts, i) # CursorAt(last.parts, j)
         /\ last.slots[i].slotKey = last.slots[j].slotKey

\* The instants at which a zone's clocks read the local fields: the wall
\* clock reading less an offset of the zone that is in force at the result.
TrueInstants(parts, timeZone) ==
    {t \in {WallClock(parts) - StandardOffset(timeZone),
            WallClock(parts) - StandardOffset(timeZone) - 60} :
        getOffsetMinutes(t, timeZone) = WallClock(parts) - t}

TrueInstant(parts, timeZone) == CHOOSE t \in TrueInstants(parts, timeZone) : TRUE

\* The length of the local day that ends at the local fields dayEnd: 23
\* hours when the clocks go forward in it, 25 when they go back, else 24.
LocalDayMinutes(dayStart, dayEnd, timeZone) ==
    IF /\ TrueInstant(dayStart, timeZone) < DstStart(dayEnd.year, timeZone)
       /\ DstStart(dayEnd.year, timeZone) <= TrueInstant(dayEnd, timeZone)
    THEN 23 * 60
    ELSE IF /\ TrueInstant(dayStart, timeZone) < DstEnd(dayEnd.year, timeZone)
            /\ DstEnd(dayEnd.year, timeZone) <= TrueInstant(dayEnd, timeZone)
    THEN 25 * 60
    ELSE 24 * 60

\* C20: for a daily schedule in a zone that observes daylight saving, the
\* window of the slot whose local day contains the spring-forward
\* transition is 23 hours long in UTC, that of the fall-back day 25 hours,
\* and every other daily window 24 hours.
DailyWindowAcrossDst ==
    (last.cmd = "listSlots" /\ config.schedule.type = "daily" /\ config.timeZone # "UTC") =>
        \A i \in 1..Len(last.slots) :
            last.slots[i].window.end - last.slots[i].window.start
                = LocalDayMinutes(shiftLocalDays(CursorAt(last.parts, i), 0 - 1),
                                  CursorAt(last.parts, i), config.timeZone)

\* A daily window of 24 hours over a local day in which the clocks change.
DailyWindowWrong ==
    /\ last.cmd = "listSlots"
    /\ config.schedule.type = "daily"
    /\ config.timeZone # "UTC"
    /\ last.slots[1].window.end - last.slots[1].window.start = 24 * 60
    /\ LocalDayMinutes(shiftLocalDays(last.parts, 0 - 1), last.parts, config.timeZone) # 24 * 60

\* The slot a date-only --at selected for a daily schedule.
DateOnlyDaily == last.cmd = "resolveSlotForAt" /\ config.schedule.type = "daily"

\* The local fields of an instant are the date at the schedule's time.
LocalIs(t, date) ==
    LET parts == getZonedParts(t, config.timeZone) IN
    /\ parts.year = date.year /\ parts.month = date.month /\ parts.day = date.day
    /\ parts.hour = OrElse(config.schedule.hour, 0)
    /\ parts.minute = OrElse(config.schedule.minute, 0)

\* C27: for a daily schedule, --at with the date D selects the slot whose
\* window starts at the schedule time of D and ends at the schedule time of
\* D + 1, both local; run, rerun and delete resolve it with the same
\* function, so they name the same slot key.
DateOnlySelectsDay ==
    DateOnlyDaily =>
        /\ LocalIs(last.slots[1].window.start, last.parts)
        /\ LocalIs(last.slots[1].window.end, shiftLocalDate(last.parts, 1))
        /\ last.slots[1].slotKey = formatSlotKeyUtc(last.slots[1].window.end)

\* A date-only --at selected the slot that ends on the date itself, the slot
\* of the day before.
DateOnlySelectedDayBefore ==
    /\ DateOnlyDaily
    /\ LocalIs(last.slots[1].window.end, last.parts)

\* The store differs from pre at most at the key.
SameExceptAt(key) ==
    \A k \in (DOMAIN store) \cup (DOMAIN pre) : k # key => BaseGet(store, k) = BaseGet(pre, k)

\* C29 (under SpecIndex): removeIndexItemBySlot removes exactly the items of
\* the slot from the slot's monthly file and returns the one it found; with
\* no such item or no file it leaves the store unchanged and returns none;
\* when no item is left the file is deleted.
RemoveExactly ==
    last.cmd = "removeIndexItemBySlot" =>
        IF \E i \in 1..Len(ItemsOf(pre, formatMonthKey(WindowStart(last.slot)))) :
               ItemsOf(pre, formatMonthKey(WindowStart(last.slot)))[i].slotKey = last.slot
        THEN /\ last.item # Null
             /\ last.item.slotKey = last.slot
             /\ ItemsOf(store, formatMonthKey(WindowStart(last.slot)))
                  = WithoutSlot(ItemsOf(pre, formatMonthKey(WindowStart(last.slot))), last.slot)
             /\ BaseExists(store, SlotMonthKey(last.slot))
                  <=> ItemsOf(store, formatMonthKey(WindowStart(last.slot))) # <<>>
             /\ SameExceptAt(SlotMonthKey(last.slot))
        ELSE last.item = Null /\ store = pre

\* The only item of a monthly file was removed and the file is gone.
RemovedLastItem ==
    /\ last.cmd = "removeIndexItemBySlot"
    /\ last.item # Null
    /\ Len(ItemsOf(pre, formatMonthKey(WindowStart(last.slot)))) = 1
    /\ ~BaseExists(store, SlotMonthKey(last.slot))

\* C30 (under SpecIndex): updateIndex applied for two items with different
\* manifestKeys to the same monthly file gives the same items list in either
\* order.
UpdateOrderIndependent ==
    last.cmd = "updateIndex twice" => ItemsOf(store, PeriodOf(last.item)) = last.swapped

\* The two orders leave the same items in the file, in different order.
UpdateOrderShows ==
    /\ last.cmd = "updateIndex twice"
    /\ ItemsOf(store, PeriodOf(last.item)) # last.swapped
    /\ {last.swapped[i] : i \in 1..Len(last.swapped)}
         = {ItemsOf(store, PeriodOf(last.item))[i] : i \in 1..Len(ItemsOf(store, PeriodOf(last.item)))}

(***************************************************************************)
(* Further properties of the commands and of the scheduled batch (under    *)
(* Spec).  last.env is what the collaborators did in the last per-slot run.*)
(***************************************************************************)
\* A run or batch slot whose fetch came back empty, that was not
\* short-circuited and in which nothing threw.
EmptyRun ==
    /\ last.ran
    /\ last.cmd \in {"run", "scheduled"}
    /\ last.env.fetch = "empty"
    /\ last.result.reason # "idempotent"
    /\ last.result.error = ""
    /\ ~last.threw

\* The slot's manifest, summary and index item are those of the last run
\* and are marked empty.
EmptyRecorded ==
    /\ last.result.status = "success"
    /\ BaseGet(store, ManifestKey(last.slot)) = last.result.manifest
    /\ last.result.manifest.empty
    /\ BaseExists(store, SummaryKey(last.slot))
    /\ BaseGet(store, SummaryKey(last.slot)).empty
    /\ \E item \in IndexedItems(store) : item.slotKey = last.slot /\ item.empty

\* No output artifact was written: the manifest names none and the slot's
\* output keys are as they were.
NoOutputWritten ==
    /\ last.result.manifest.output = Null
    /\ \A ext \in {Extension(f) : f \in Formats} :
         BaseGet(store, OutputKey(last.slot, ext)) = BaseGet(pre, OutputKey(last.slot, ext))

\* The output artifact the manifest names was written in the last run.
OutputWritten ==
    /\ last.result.manifest.output # Null
    /\ BaseExists(store, last.result.manifest.output.key)
    /\ BaseGet(store, last.result.manifest.output.key).at = last.result.manifest.generatedAt

\* C21 as stated: on an empty result, skip ends the run as skipped and
\* writes nothing, manifest-only writes manifest, summary and index entry
\* marked empty and no output, placeholder writes an output as well.
EmptyPolicy ==
    EmptyRun =>
        IF config.onEmpty = "skip"
        THEN last.result.status = "skipped" /\ last.result.reason = "empty" /\ store = pre
        ELSE IF config.onEmpty = "manifest-only"
        THEN EmptyRecorded /\ NoOutputWritten
        ELSE EmptyRecorded /\ OutputWritten

\* An empty run under the manifest-only policy after which the index item of
\* the slot still says the slot is not empty.
EmptyRunLeftStaleItem ==
    /\ EmptyRun
    /\ config.onEmpty = "manifest-only"
    /\ last.result.manifest.empty
    /\ \E item \in IndexedItems(store) : item.slotKey = last.slot /\ ~item.empty

\* A pipeline job with metricsOnly set ran empty under the placeholder policy
\* and stored no output.
MetricsOnlyWithoutPlaceholder ==
    /\ EmptyRun
    /\ config.onEmpty = "placeholder"
    /\ config.metricsOnly
    /\ NoOutputWritten

\* The Notifier was called in the last run or batch slot and failed after
\* its retries; fetch, generation and the put of the output had succeeded.
NotifierFailed ==
    /\ last.ran
    /\ last.cmd \in {"run", "scheduled"}
    /\ last.env.hook = "throw"
    /\ "Notifier" \in last.result.calls
    /\ ~last.threw

StoredManifestStatus(base, slot) ==
    IF BaseExists(base, ManifestKey(slot)) THEN BaseGet(base, ManifestKey(slot)).status ELSE "none"

\* C22: a run whose notification failed is still recorded as success: its
\* result is success, the slot's manifest is not a failed one, and a
\* successful manifest stored before is not replaced by a failed one.
NotifierBestEffort ==
    NotifierFailed =>
        /\ last.result.status = "success"
        /\ StoredManifestStatus(store, last.slot) # "failed"
        /\ StoredManifestStatus(pre, last.slot) = "success" =>
               StoredManifestStatus(store, last.slot) = "success"

\* A failed notification replaced the successful manifest of the slot by a
\* failed one.
NotifierFailureReplacedSuccess ==
    /\ NotifierFailed
    /\ last.result.status = "failed"
    /\ StoredManifestStatus(pre, last.slot) = "success"
    /\ StoredManifestStatus(store, last.slot) = "failed"

\* The last run or batch slot found the monthly index file of its slot
\* unparseable, met no failing store call and got as far as its record.
RanOnCorruptIndex ==
    /\ last.ran
    /\ last.cmd \in {"run", "scheduled"}
    /\ ~last.faulty
    /\ last.result.status # "skipped"
    /\ BaseGet(pre, SlotMonthKey(last.slot)) = Corrupt

\* C23: a run that finds its monthly index file unparseable treats it as
\* having no items and goes on: no exception leaves the run or the batch, and
\* the file then holds the item of the slot.
IndexCorruptionTolerated ==
    RanOnCorruptIndex =>
        /\ ~last.threw
        /\ BaseGet(store, SlotMonthKey(last.slot)) # Corrupt
        /\ \E item \in IndexedItems(store) : item.slotKey = last.slot

\* The exception of the unparseable index file left a scheduled invocation
\* and the file is as it was.
CorruptIndexEscaped ==
    /\ RanOnCorruptIndex
    /\ last.cmd = "scheduled"
    /\ last.threw
    /\ BaseGet(store, SlotMonthKey(last.slot)) = Corrupt

\* C25: whenever the latest pointer exists, the item it holds has status
\* success.
LatestIsSuccessful ==
    LatestItem(store) # Null => LatestItem(store).status = "success"

\* A run whose fetch threw left the latest pointer naming its failed slot.
LatestNamesFailedSlot ==
    /\ last.ran
    /\ last.env.fetch = "throw"
    /\ last.result.status = "failed"
    /\ LatestItem(store) # Null
    /\ LatestItem(store).slotKey = last.slot
    /\ LatestItem(store).status = "failed"

\* The keys under the report base of a slot whose file name is one of names.
SlotArtifacts(base, slot, names) ==
    {k \in BaseList(base, ReportBase(slot)) : k[Len(k)] \in names}

OutputNames == {"output." \o Extension(f) : f \in Formats}

\* C26: after any sequence of runs, the store holds at most one manifest, one
\* summary and one output artifact under the report base of a slot.
OneArtifactPerSlot ==
    \A slot \in AllSlots :
        /\ Cardinality(SlotArtifacts(store, slot, {"manifest.json"})) <= 1
        /\ Cardinality(SlotArtifacts(store, slot, {"summary.json"})) <= 1
        /\ Cardinality(SlotArtifacts(store, slot, OutputNames)) <= 1

\* A second run of a slot with the other output format left two output
\* artifacts, of which the manifest names one.
TwoOutputsInSlot ==
    /\ last.cmd = "run"
    /\ last.result.status = "success"
    /\ Cardinality(SlotArtifacts(store, last.slot, OutputNames)) = 2
    /\ Cardinality(SlotArtifacts(pre, last.slot, OutputNames)) = 1

\* The items that refer to a manifest: those of the index files and the one
\* of the latest pointer.
ReferringItems(base) ==
    IndexedItems(base) \cup (IF LatestItem(base) = Null THEN {} ELSE {LatestItem(base)})

\* Before the last run the store held nothing of its slot.
FreshSlotRun ==
    /\ last.ran
    /\ last.cmd \in {"run", "scheduled"}
    /\ BaseList(pre, ReportBase(last.slot)) = {}
    /\ \A item \in ReferringItems(pre) : item.slotKey # last.slot

SlotIndexed(base, slot) == \E item \in IndexedItems(base) : item.slotKey = slot

SlotIsLatest(base, slot) == LatestItem(base) # Null /\ LatestItem(base).slotKey = slot

\* C28: a run writes output, manifest, summary, monthly index and latest
\* pointer in that order, so wherever a run of a slot stops, each of them is
\* there only if the ones before it are, and an index item or a latest
\* pointer of the slot refers to a manifest key that is in the store.
WriteOrdering ==
    FreshSlotRun =>
        /\ SlotIsLatest(store, last.slot) => SlotIndexed(store, last.slot)
        /\ SlotIndexed(store, last.slot) => BaseExists(store, SummaryKey(last.slot))
        /\ BaseExists(store, SummaryKey(last.slot)) => BaseExists(store, ManifestKey(last.slot))
        /\ (/\ BaseExists(store, ManifestKey(last.slot))
            /\ BaseGet(store, ManifestKey(last.slot)).output # Null)
             => BaseExists(store, BaseGet(store, ManifestKey(last.slot)).output.key)
        /\ \A item \in ReferringItems(store) :
             item.slotKey = last.slot => BaseExists(store, item.manifestKey)

\* A run stopped by the store after its summary and before its index item:
\* output, manifest and summary are there, the index and the pointer do not
\* name the slot.
StoppedBeforeIndex ==
    /\ FreshSlotRun
    /\ last.faulty
    /\ last.threw
    /\ BaseExists(store, ManifestKey(last.slot))
    /\ BaseGet(store, ManifestKey(last.slot)).status = "success"
    /\ BaseExists(store, SummaryKey(last.slot))
    /\ ~SlotIndexed(store, last.slot)
    /\ ~SlotIsLatest(store, last.slot)

\* C31: every per-slot run ends in exactly one of the outcomes success,
\* failed or skipped, whatever the collaborators and the store do.
RunOutcome ==
    last.ran => last.result.status \in {"success", "failed", "skipped"}

\* A run or batch slot ended by an exception after it had written to the
\* store: it returned no outcome.
RunAbortedMidway ==
    /\ last.ran
    /\ last.cmd \in {"run", "scheduled"}
    /\ last.result.status = "threw"
    /\ last.threw
    /\ store # pre

\* An index item says what the manifest says.
AgreesWith(item, manifest) ==
    /\ item.status = manifest.status
    /\ item.empty = manifest.empty
    /\ item.outputSize = OutputSizeOf(manifest)

\* C33: every item of a monthly index has the status, the empty flag and the
\* outputSize of the manifest stored at its manifestKey.
IndexAgreesWithManifest ==
    \A item \in IndexedItems(store) :
        BaseExists(store, item.manifestKey) =>
            AgreesWith(item, BaseGet(store, item.manifestKey))

\* A run of a slot succeeded after a failure of the slot had been recorded,
\* and the index still holds the item of the failure.
FailedItemOutlivesSuccess ==
    /\ last.ran
    /\ last.cmd = "run"
    /\ last.result.status = "success"
    /\ StoredManifestStatus(pre, last.slot) = "failed"
    /\ StoredManifestStatus(store, last.slot) = "success"
    /\ \E item \in IndexedItems(store) : item.slotKey = last.slot /\ item.status = "failed"

\* C34: whenever the manifest stored for a slot has status failed, no output
\* artifact is stored under the report base of the slot.
FailedSlotHasNoOutput ==
    \A slot \in AllSlots :
        StoredManifestStatus(store, slot) = "failed" =>
            SlotArtifacts(store, slot, OutputNames) = {}

\* A run stored its output, failed in the notifier and recorded the failure:
\* the output it wrote lies next to the failed manifest.
OutputBesideFailedManifest ==
    /\ NotifierFailed
    /\ last.result.status = "failed"
    /\ SlotArtifacts(pre, last.slot, OutputNames) = {}
    /\ StoredManifestStatus(store, last.slot) = "failed"
    /\ SlotArtifacts(store, last.slot, OutputNames) # {}

\* C37: loadIndexItemsForRange returns every item of the monthly index files
\* of the job whose window overlaps the queried window, and no other item,
\* in ascending order of window.start; an item whose window starts in a
\* month before the range and an item in the month of the end of the range
\* are among them.
RangeQueryComplete ==
    last.cmd = "loadIndexItemsForRange" =>
        /\ {last.found[i] : i \in 1..Len(last.found)}
               = {item \in IndexedItems(store) : overlapsWindow(item, last.window)}
        /\ \A i \in 1..(Len(last.found) - 1) : last.found[i].start <= last.found[i + 1].start

\* A range query did not return an indexed item that overlaps its window.
RangeQueryMissedItem ==
    /\ last.cmd = "loadIndexItemsForRange"
    /\ \E item \in IndexedItems(store) :
          /\ overlapsWindow(item, last.window)
          /\ \A i \in 1..Len(last.found) : last.found[i] # item

(***************************************************************************)
(* Two scheduled runs at once (SpecConcurrent).  Each is one invocation of *)
(* runJobWithSchedule for its own (owner, job) on the current slot, taken  *)
(* one store call at a time: every await of the code is a point where the  *)
(* other run may act.  config holds the two (owner, job) pairs, batch the  *)
(* position of each run and the body its last get returned, pre the store  *)
(* both started from.                                                      *)
(***************************************************************************)
Owners == {"acme", "zeta"}
JobIds == {"daily", "weekly"}
Procs == {1, 2}

\* The store calls of one scheduled run of one slot, in the code's order.
Calls ==
    <<"registry-get", "registry-put", "output", "manifest", "summary",
      "index-get", "index-put", "latest">>

\* jobs.find / jobs.findIndex by id.
JobIndex(jobs, id) ==
    IF \E i \in 1..Len(jobs) : jobs[i].id = id
    THEN CHOOSE i \in 1..Len(jobs) : jobs[i].id = id
    ELSE 0

\* The body writeJobsRegistry puts, from the body it got.
NextRegistry(existing, owner, id) ==
    LET jobs == IF existing = Null THEN <<>> ELSE existing.jobs
        index == JobIndex(jobs, id)
        next == [id |-> id, totalRuns |-> (IF index = 0 THEN 0 ELSE jobs[index].totalRuns) + 1]
    IN  [type |-> "jobs", owner |-> owner,
         jobs |-> IF index = 0 THEN Append(jobs, next) ELSE [jobs EXCEPT ![index] = next]]

ReportBaseOf(j, s) == buildReportBaseKey("reports", "org", j.owner, j.id, s)
IndexBaseOf(j) == buildIndexBaseKey("reports", "org", j.owner, j.id)
JobsKeyOf(j) == buildJobsRegistryKey("reports", "org", j.owner)

\* The key a call of run j reads or writes.
CallKey(j, call, s) ==
    IF call \in {"registry-get", "registry-put"} THEN JobsKeyOf(j)
    ELSE IF call = "output" THEN Append(ReportBaseOf(j, s), "output.md")
    ELSE IF call = "manifest" THEN Append(ReportBaseOf(j, s), "manifest.json")
    ELSE IF call = "summary" THEN Append(ReportBaseOf(j, s), "summary.json")
    ELSE IF call = "latest" THEN Append(IndexBaseOf(j), "latest.json")
    ELSE Append(IndexBaseOf(j), ToString(formatMonthKey(WindowStart(s))) \o ".json")

ItemOf(j, s) ==
    [slotKey |-> s, start |-> WindowStart(s), status |-> "success", empty |-> FALSE,
     outputSize |-> 2, manifestKey |-> CallKey(j, "manifest", s)]

\* The body a writing call of run j puts, given what its last get returned.
CallBody(j, call, s, read) ==
    IF call = "registry-put" THEN NextRegistry(read, j.owner, j.id)
    ELSE IF call = "index-put"
    THEN [type |-> "index", period |-> formatMonthKey(WindowStart(s)),
          items |-> MergeItem(ExistingItems(read), ItemOf(j, s))]
    ELSE IF call = "latest" THEN [type |-> "latest", latest |-> ItemOf(j, s)]
    ELSE [type |-> call, owner |-> j.owner, jobId |-> j.id, slotKey |-> s]

IsGet(call) == call \in {"registry-get", "index-get"}

\* The store after the calls from position pc on of run j, done without
\* interruption.
RECURSIVE RunAlone(_, _, _, _, _)
RunAlone(base, j, s, pc, read) ==
    IF pc > Len(Calls) THEN base
    ELSE IF IsGet(Calls[pc])
    THEN RunAlone(base, j, s, pc + 1, BaseGet(base, CallKey(j, Calls[pc], s)))
    ELSE RunAlone(BasePut(base, CallKey(j, Calls[pc], s), CallBody(j, Calls[pc], s, read)),
                  j, s, pc + 1, read)

\* Different jobs of one owner, or one job under different owners.
ConcurrentPairs ==
    {pair \in [Procs -> [owner : Owners, id : JobIds]] :
        \/ pair[1].owner = pair[2].owner /\ pair[1].id # pair[2].id
        \/ pair[1].owner # pair[2].owner /\ pair[1].id = pair[2].id}

\* The stores the two runs may start from: empty, or with a registry in
\* which an owner's job has run before.
StartStores ==
    {<<>>}
    \cup {BasePut(<<>>, buildJobsRegistryKey("reports", "org", o), NextRegistry(Null, o, id)) :
            o \in Owners, id \in JobIds}

InitConcurrent ==
    /\ store \in StartStores
    /\ pre = store
    /\ config \in ConcurrentPairs
    /\ batch = [p \in Procs |-> [pc |-> 1, read |-> Null]]
    /\ cur = 1
    /\ clock = 0
    /\ buf = createBufferedStorage(<<>>)
    /\ last = [proc |-> 0, call |-> "none"]

\* await storage.get(key) of run p.
ProcGet(p) ==
    /\ batch[p].pc <= Len(Calls)
    /\ IsGet(Calls[batch[p].pc])
    /\ batch' = [batch EXCEPT ![p] = [pc |-> @.pc + 1,
                                      read |-> BaseGet(store, CallKey(config[p], Calls[@.pc], cur))]]
    /\ last' = [proc |-> p, call |-> Calls[batch[p].pc]]
    /\ clock' = clock + 1
    /\ UNCHANGED <<store, cur, config, buf, pre>>

\* await storage.put(key, body) of run p.
ProcPut(p) ==
    /\ batch[p].pc <= Len(Calls)
    /\ ~IsGet(Calls[batch[p].pc])
    /\ store' = BasePut(store, CallKey(config[p], Calls[batch[p].pc], cur),
                        CallBody(config[p], Calls[batch[p].pc], cur, batch[p].read))
    /\ batch' = [batch EXCEPT ![p] = [pc |-> @.pc + 1, read |-> @.read]]
    /\ last' = [proc |-> p, call |-> Calls[batch[p].pc]]
    /\ clock' = clock + 1
    /\ UNCHANGED <<cur, config, buf, pre>>

NextConcurrent == \E p \in Procs : ProcGet(p) \/ ProcPut(p)

SpecConcurrent == InitConcurrent /\ [][NextConcurrent]_vars

BothDone == \A p \in Procs : batch[p].pc > Len(Calls)

OneAfterTheOther(first, second) ==
    RunAlone(RunAlone(pre, config[first], cur, 1, Null), config[second], cur, 1, Null)

\* C24: whatever the interleaving of the store calls of two concurrent
\* scheduled runs (different jobs of one owner, or one job under different
\* owners), the final store is the one that running them one after the
\* other leaves.
ConcurrentIsolation ==
    BothDone => store \in {OneAfterTheOther(1, 2), OneAfterTheOther(2, 1)}

\* Both runs are done and the owner's registry lacks one of the two jobs.
RegistryLostJob ==
    /\ BothDone
    /\ config[1].owner = config[2].owner
    /\ \E p \in Procs : JobIndex(BaseGet(store, JobsKeyOf(config[p])).jobs, config[p].id) = 0

(***************************************************************************)
(* withRetry (src/src/retry.ts) on its own (SpecRetry).  config is the     *)
(* RetryConfig, batch the loop: attempt, the position in the loop body,    *)
(* lastError, and as history what every call of fn did and every delay     *)
(* that was awaited.  A call of fn returns one of two values or throws one *)
(* of two errors.  last is how withRetry ended.                            *)
(***************************************************************************)
MaxRetries == 3

RetryValues == {"v1", "v2"}
RetryErrors == {"e1", "e2"}

\* What a call of fn may do.
FnOutcomes ==
    {[ok |-> TRUE, what |-> v] : v \in RetryValues}
    \cup {[ok |-> FALSE, what |-> err] : err \in RetryErrors}

\* A backoff that grows by backoffMs with each attempt.
RetryWaitLinear(backoffMs, attempt) == backoffMs * (attempt + 1)

\* const wait = config.backoffMs * Math.pow(2, attempt)
RetryWait(backoffMs, attempt) == backoffMs * (2 ^ attempt)

InitRetry ==
    /\ config \in [retries : 0..MaxRetries, backoffMs : {1, 500}]
    /\ batch = [attempt |-> 0, pc |-> "call", lastError |-> "undefined",
                calls |-> <<>>, waits |-> <<>>]
    /\ last = [ended |-> "no", what |-> "undefined"]
    /\ store = <<>>
    /\ pre = <<>>
    /\ clock = 0
    /\ cur = 1
    /\ buf = createBufferedStorage(<<>>)

\* while (attempt <= config.retries) { try { return await fn(); } : fn
\* returns and withRetry returns its value.
RetryCallReturns(out) ==
    /\ batch.pc = "call"
    /\ batch.attempt <= config.retries
    /\ out.ok
    /\ batch' = [batch EXCEPT !.pc = "done", !.calls = Append(@, out)]
    /\ last' = [ended |-> "returned", what |-> out.what]
    /\ UNCHANGED <<store, clock, cur, config, buf, pre>>

\* catch (error) { lastError = error; if (attempt === config.retries) break;
\* and, after the loop, throw lastError.
RetryCallThrows(out) ==
    /\ batch.pc = "call"
    /\ batch.attempt <= config.retries
    /\ ~out.ok
    /\ IF batch.attempt = config.retries
       THEN /\ batch' = [batch EXCEPT !.pc = "done", !.lastError = out.what,
                                      !.calls = Append(@, out)]
            /\ last' = [ended |-> "threw", what |-> out.what]
       ELSE /\ batch' = [batch EXCEPT !.pc = "delay", !.lastError = out.what,
                                      !.calls = Append(@, out)]
            /\ last' = last
    /\ UNCHANGED <<store, clock, cur, config, buf, pre>>

\* await delay(wait); attempt += 1;
RetryDelay ==
    /\ batch.pc = "delay"
    /\ batch' = [batch EXCEPT !.pc = "call", !.attempt = @ + 1,
                              !.waits = Append(@, RetryWait(config.backoffMs, batch.attempt))]
    /\ UNCHANGED <<store, clock, cur, config, buf, pre, last>>

NextRetry ==
    \/ \E out \in FnOutcomes : RetryCallReturns(out)
    \/ \E out \in FnOutcomes : RetryCallThrows(out)
    \/ RetryDelay

\* fn and delay return: a step that can be taken is taken.
SpecRetry == InitRetry /\ [][NextRetry]_vars /\ WF_vars(NextRetry)

AllFailed(calls) == \A i \in 1..Len(calls) : ~calls[i].ok

\* What holds of withRetry at every point.
RetryBounded ==
    /\ Len(batch.calls) <= config.retries + 1
    /\ \A i \in 1..Len(batch.waits) : batch.waits[i] = config.backoffMs * (2 ^ (i - 1))
    /\ Len(batch.waits) = (IF batch.pc = "call" THEN Len(batch.calls) ELSE Len(batch.calls) - 1)
    /\ last.ended = "returned" =>
         /\ batch.calls[Len(batch.calls)] = [ok |-> TRUE, what |-> last.what]
         /\ AllFailed(SubSeq(batch.calls, 1, Len(batch.calls) - 1))
    /\ last.ended = "threw" =>
         /\ Len(batch.calls) = config.retries + 1
         /\ AllFailed(batch.calls)
         /\ batch.calls[Len(batch.calls)].what = last.what
    /\ last.ended = "no" => AllFailed(batch.calls)

\* C32: withRetry calls fn at most retries + 1 times, returns the value of
\* the first call that succeeds and calls no more, waits backoffMs * 2^attempt
\* between attempts, throws the last error after retries + 1 failures, and
\* ends whenever fn and delay return.
BoundedRetry == []RetryBounded /\ <>(last.ended # "no")

\* withRetry returned the value of the last allowed attempt after every
\* earlier one failed and every backoff was awaited.
ReturnedOnLastAttempt ==
    /\ last.ended = "returned"
    /\ config.retries = MaxRetries
    /\ Len(batch.calls) = MaxRetries + 1
    /\ Len(batch.waits) = MaxRetries
    /\ batch.waits[MaxRetries] = 500 * 4

(***************************************************************************)
(* A job with its own output prefix (SpecPrefix).  config.output.prefix is *)
(* "reports"; a job may set outputPrefix.  runJob with runScheduledOnly    *)
(* asks getScheduleDecision, writes the jobs registry and runs the         *)
(* processor for the current slot; every collaborator works and no store   *)
(* call fails.  last is the invocation that ended.                         *)
(***************************************************************************)
ConfigPrefix == "reports"
OutputPrefixes == {"undefined", "reports", "archive"}

PrefixJob(outputPrefix) ==
    [id |-> "daily", owner |-> "acme", ownerType |-> "org", outputPrefix |-> outputPrefix]

\* job.outputPrefix ?? config.output.prefix
JobPrefix(job) ==
    IF job.outputPrefix = "undefined" THEN ConfigPrefix ELSE job.outputPrefix

\* loadLatestItem with prefix: config.output.prefix
DecisionIndexBase(job) == buildIndexBaseKey(ConfigPrefix, job.ownerType, job.owner, job.id)
DecisionLatestKey(job) == Append(DecisionIndexBase(job), "latest.json")

\* The keys of the processor.
ProcessorReportBase(job, slot) ==
    buildReportBaseKey(JobPrefix(job), job.ownerType, job.owner, job.id, slot)
ProcessorIndexBase(job) ==
    buildIndexBaseKey(JobPrefix(job), job.ownerType, job.owner, job.id)
ProcessorLatestKey(job) == Append(ProcessorIndexBase(job), "latest.json")

PrefixItem(job, slot, manifest) ==
    [IndexItemOf(slot, manifest) EXCEPT
        !.manifestKey = Append(ProcessorReportBase(job, slot), "manifest.json")]

\* The decision of runJob: due when the pointer it reads names no slot or an
\* earlier one.
PrefixDecision(st, job, now) ==
    LET loaded == loadLatest(st, DecisionIndexBase(job)) IN
    loaded.item = Null \/ loaded.item.slotKey < resolveSlotKey(now)

\* The writes of a successful window: manifest, index file, pointer.
PrefixWindow(st, job, slot, manifest) ==
    writeLatest(
        updateIndex(
            writeManifest(st, Append(ProcessorReportBase(job, slot), "manifest.json"), manifest),
            Append(ProcessorIndexBase(job), ToString(formatMonthKey(WindowStart(slot))) \o ".json"),
            formatMonthKey(WindowStart(slot)), PrefixItem(job, slot, manifest)),
        ProcessorLatestKey(job), PrefixItem(job, slot, manifest))

PrefixRun(st, job, slot, now) ==
    PrefixWindow(
        writeJobsRegistry(st, buildJobsRegistryKey(ConfigPrefix, job.ownerType, job.owner), now),
        job, slot,
        buildManifest(slot, [key |-> "output.md", size |-> 2], FALSE, now))

InitPrefix ==
    /\ store = <<>>
    /\ pre = <<>>
    /\ clock = 0
    /\ cur = 1
    /\ config = PrefixJob("undefined")
    /\ batch = IdleBatch
    /\ buf = createBufferedStorage(<<>>)
    /\ last = [cmd |-> "none", due |-> FALSE, slot |-> 0]

PrefixTick ==
    /\ cur < NumSlots
    /\ cur' = cur + 1
    /\ last' = [last EXCEPT !.cmd = "tick"]
    /\ UNCHANGED <<store, clock, config, batch, buf, pre>>

PrefixScheduled(job) ==
    /\ clock < MaxHistory
    /\ config' = job
    /\ store' = IF PrefixDecision(RealStorage(store, NoFault), job, cur)
                THEN PrefixRun(RealStorage(store, NoFault), job, cur, clock).base
                ELSE store
    /\ last' = [cmd |-> "scheduled", slot |-> cur,
                due |-> PrefixDecision(RealStorage(store, NoFault), job, cur)]
    /\ pre' = store
    /\ clock' = clock + 1
    /\ UNCHANGED <<cur, batch, buf>>

NextPrefix ==
    \/ PrefixTick
    \/ \E outputPrefix \in OutputPrefixes : PrefixScheduled(PrefixJob(outputPrefix))

SpecPrefix == InitPrefix /\ [][NextPrefix]_vars

\* C35: for every job, one that sets outputPrefix included, the pointer key
\* that the schedule decision of an invocation read is the pointer key that
\* the processor of that job writes.
LatestKeyAgreement ==
    last.cmd = "scheduled" => DecisionLatestKey(config) = ProcessorLatestKey(config)

\* A scheduled invocation was due and ran the current slot although the
\* pointer written by the processor of the job named that slot already.
RanSlotAgain ==
    /\ last.cmd = "scheduled"
    /\ last.due
    /\ BaseGet(pre, ProcessorLatestKey(config)) # Null
    /\ BaseGet(pre, ProcessorLatestKey(config)).latest.slotKey = last.slot
    /\ BaseGet(store, Append(ProcessorReportBase(config, last.slot), "manifest.json")).generatedAt
           = clock - 1

(***************************************************************************)
(* Scheduled invocations one after another (SpecSchedule).  Each action is *)
(* one call of runJob with runScheduledOnly: the decision, the jobs        *)
(* registry, the slots of listSlots and the loop over them.  The           *)
(* collaborators may fail, the store does not; failures are recorded.      *)
(* batch holds the slots that an invocation recorded as its current slot.  *)
(***************************************************************************)
\* for (const slot of slots) { results.push(await runJobForSlot(...)) }
RECURSIVE RunSlots(_, _, _, _, _)
RunSlots(st, queue, job, env, now) ==
    IF queue = <<>> THEN [st |-> st, results |-> <<>>, calls |-> {}]
    ELSE LET r == runJobForSlot(st, Head(queue), job,
                                [notify |-> TRUE, recordFailure |-> TRUE], env, now)
             rest == RunSlots(r.st, Tail(queue), job, env, now)
         IN  [st |-> rest.st,
              results |-> <<[slot |-> Head(queue), status |-> r.status]>> \o rest.results,
              calls |-> r.calls \cup rest.calls]

\* The slots among the results that ended with success or failure.
RecordedIn(results) ==
    {results[i].slot : i \in {j \in 1..Len(results) : results[j].status \in {"success", "failed"}}}

InitSchedule ==
    /\ store = <<>>
    /\ pre = <<>>
    /\ clock = 0
    /\ cur = 1
    /\ config \in JobConfigs
    /\ batch = [recorded |-> {}]
    /\ buf = createBufferedStorage(<<>>)
    /\ last = [cmd |-> "none", slot |-> 0, backfillSlots |-> 0, due |-> FALSE,
               recordedBefore |-> FALSE, results |-> <<>>, calls |-> {}]

ScheduleTick ==
    /\ cur < NumSlots
    /\ cur' = cur + 1
    /\ last' = [last EXCEPT !.cmd = "tick"]
    /\ UNCHANGED <<store, clock, config, batch, buf, pre>>

ScheduleRan(ran, backfillSlots) ==
    /\ store' = ran.st.base
    /\ batch' = [batch EXCEPT !.recorded = @ \cup (RecordedIn(ran.results) \cap {cur})]
    /\ last' = [cmd |-> "scheduled", slot |-> cur, backfillSlots |-> backfillSlots,
                due |-> TRUE, recordedBefore |-> cur \in batch.recorded,
                results |-> ran.results, calls |-> ran.calls]

ScheduleInvoke(backfillSlots, env) ==
    /\ clock < MaxHistory
    /\ IF ScheduleGate(TRUE, getScheduleDecision(RealStorage(store, NoFault), cur)) = "run"
       THEN ScheduleRan(RunSlots(writeJobsRegistry(RealStorage(store, NoFault), JobsKey, clock),
                                 listSlots(cur, backfillSlots), JobWith("markdown"), env, clock),
                        backfillSlots)
       ELSE /\ last' = [cmd |-> "scheduled", slot |-> cur, backfillSlots |-> backfillSlots,
                        due |-> FALSE, recordedBefore |-> cur \in batch.recorded,
                        results |-> <<>>, calls |-> {}]
            /\ UNCHANGED <<store, batch>>
    /\ pre' = store
    /\ clock' = clock + 1
    /\ UNCHANGED <<cur, config, buf>>

NextSchedule ==
    \/ ScheduleTick
    \/ \E n \in 0..MaxBackfill, env \in Envs(TRUE) : ScheduleInvoke(n, env)

SpecSchedule == InitSchedule /\ [][NextSchedule]_vars

\* C36: once a scheduled invocation has processed its batch and recorded the
\* current slot, with success or as a failure, every later scheduled
\* invocation while that slot is still the current one is not due and calls
\* no collaborator, whatever backfillSlots is.
NoRepeatInSlot ==
    (last.cmd = "scheduled" /\ last.recordedBefore) =>
        (~last.due /\ last.calls = {})

\* A scheduled invocation was due and fetched activity although an earlier
\* one had recorded the slot that is still the current one.
RepeatedInSlot ==
    /\ last.cmd = "scheduled"
    /\ last.recordedBefore
    /\ last.due
    /\ "ActivitySource" \in last.calls

(***************************************************************************)
(* reporter rerun taken one await at a time (SpecRerun): the per-slot run  *)
(* on the buffered store, in which the processor calls the Notifier, then  *)
(* commit() and the cleanup on success, discard() otherwise.  buf is the   *)
(* buffered store of the rerun under way, batch its position, last what    *)
(* has happened in it so far.                                              *)
(***************************************************************************)
RerunFaults == {NoFault} \cup {[failAt |-> k, recover |-> FALSE] : k \in {1, 3}}

RerunIdle == [pc |-> "idle", slot |-> 0, existing |-> {}]

NoRerun ==
    [cmd |-> "none", slot |-> 0, notify |-> FALSE, status |-> "none", notified |-> FALSE,
     sent |-> FALSE, committed |-> FALSE, threw |-> FALSE, ended |-> FALSE]

InitRerun ==
    /\ store = <<>>
    /\ pre = <<>>
    /\ clock = 0
    /\ cur = 1
    /\ config \in JobConfigs
    /\ batch = RerunIdle
    /\ buf = createBufferedStorage(<<>>)
    /\ last = NoRerun

\* existingKeys, createBufferedStorage, runJobForSlot
RerunRan(result, at, sc) ==
    /\ buf' = result.st
    /\ batch' = [pc |-> IF result.status = "success" THEN "commit" ELSE "discard",
                 slot |-> at, existing |-> BaseList(store, ReportBase(at))]
    /\ last' = [NoRerun EXCEPT !.cmd = "rerun", !.slot = at, !.notify = sc.notify,
                               !.status = result.status,
                               !.notified = "Notifier" \in result.calls,
                               !.sent = "Notifier" \in result.calls /\ sc.env.hook = "ok"]

RerunRun(at, outputFormat, sc) ==
    /\ batch.pc = "idle"
    /\ clock < MaxCmds
    /\ RerunRan(runJobForSlot(createBufferedStorage(store), at, JobWith(outputFormat),
                              [notify |-> sc.notify, recordFailure |-> FALSE], sc.env, clock),
                at, sc)
    /\ pre' = store
    /\ clock' = clock + 1
    /\ UNCHANGED <<store, cur, config>>

\* buffered.commit() and the deletes of the existing keys not committed.
RerunCommitEnds(cleaned) ==
    /\ store' = cleaned.base
    /\ last' = [last EXCEPT !.committed = ~cleaned.err, !.threw = cleaned.err, !.ended = TRUE]

RerunCommit(fault) ==
    /\ batch.pc = "commit"
    /\ RerunCommitEnds(DeleteKeys(commit(buf, RealStorage(store, fault)),
                                  batch.existing \ pendingKeys(buf)))
    /\ batch' = RerunIdle
    /\ buf' = createBufferedStorage(<<>>)
    /\ UNCHANGED <<clock, cur, config, pre>>

\* buffered.discard()
RerunDiscard ==
    /\ batch.pc = "discard"
    /\ buf' = createBufferedStorage(<<>>)
    /\ batch' = RerunIdle
    /\ last' = [last EXCEPT !.ended = TRUE]
    /\ UNCHANGED <<store, clock, cur, config, pre>>

NextRerun ==
    \/ \E at \in Slots, f \in Formats, sc \in CliScenarios : RerunRun(at, f, sc)
    \/ \E fault \in RerunFaults : RerunCommit(fault)
    \/ RerunDiscard

SpecRerun == InitRerun /\ [][NextRerun]_vars

\* C38: in a rerun with notification enabled the Notifier is invoked only
\* when the result of the rerun is success, and only once the writes of the
\* rerun have been committed to the real store; a rerun that fails or is
\* skipped notifies nobody.
NotifyAfterCommit ==
    (last.cmd = "rerun" /\ last.notify /\ last.notified) =>
        (last.status = "success" /\ last.committed)

\* The webhook of a rerun has been sent while none of its writes has reached
\* the real store: commit() is still to come.
NotifiedBeforeCommit ==
    /\ last.cmd = "rerun"
    /\ last.notify
    /\ last.sent
    /\ last.status = "success"
    /\ batch.pc = "commit"
    /\ pendingKeys(buf) # {}
    /\ store = pre

====
